---- MODULE Spec2Model ----
(***************************************************************************)
(* Pronunciation backend: the lookup-and-cache engine of src/index.js (bulk *)
(* phonetic dataset, response cache, conditional retrieval) and of the      *)
(* letter-shard handlers of src/unnamed/part_002 and src/unnamed/part_003.  *)
(*                                                                          *)
(* One step of the model is one run-to-completion turn of the Node event   *)
(* loop: a handler runs from the event that wakes it to its next pending   *)
(* await, together with every continuation that becomes runnable as a      *)
(* microtask in that turn.                                                  *)
(***************************************************************************)
EXTENDS Integers, Sequences, FiniteSets, TLC

\* ------------------------------------------------------------------------
\* Bounds of the model
\* ------------------------------------------------------------------------
\* number of POST /get-pronunciation requests that can overlap
MaxReq == 2
\* number of upstream fetches of the bulk dataset of a behaviour
MaxLoads == 2
\* stand-in for the maxKeys option of the response cache
MaxKeys == 1
\* number of senses in an entry of the definition provider
MaxSenses == 3

Requests == 1..MaxReq

\* JavaScript null / undefined for string-valued fields
NULL == "null"
UNDEFINED == "undefined"

\* ------------------------------------------------------------------------
\* Strings: a word is a sequence of characters
\* ------------------------------------------------------------------------
IsSpace(c) == c = " "

toLowerCaseChar(c) == IF c = "A" THEN "a" ELSE IF c = "B" THEN "b" ELSE c

toLowerCase(s) == [i \in 1..Len(s) |-> toLowerCaseChar(s[i])]

RECURSIVE trimStart(_)
trimStart(s) ==
  IF s # <<>> /\ IsSpace(Head(s)) THEN trimStart(Tail(s)) ELSE s

RECURSIVE trimEnd(_)
trimEnd(s) ==
  IF s # <<>> /\ IsSpace(s[Len(s)]) THEN trimEnd(SubSeq(s, 1, Len(s) - 1)) ELSE s

\* variant that keeps the whitespace around the word
trim_none(s) == s

trim(s) == trimEnd(trimStart(s))

\* first n elements of a sequence: Array.prototype.slice(0, n)
slice0(s, n) == SubSeq(s, 1, IF Len(s) < n THEN Len(s) ELSE n)

\* ------------------------------------------------------------------------
\* Request bodies and headers the clients send
\* ------------------------------------------------------------------------
\* body.word: kind is the JavaScript type of the field; str is its value
\* when it is a string. A number stands for any truthy non-string value.
WordMissing == [kind |-> "undefined", str |-> <<>>]
WordNumber == [kind |-> "number", str |-> <<>>]
WordStr(s) == [kind |-> "string", str |-> s]

Body(w, a, m) == [word |-> w, accent |-> a, isMale |-> m]

Bodies ==
  { Body(WordStr(<<"a">>), "en-US", TRUE),
    Body(WordStr(<<" ", "A">>), "en-US", TRUE),
    Body(WordStr(<<"a">>), "en-GB", FALSE),
    Body(WordStr(<<"a">>), "en-US", FALSE),
    Body(WordStr(<<" ">>), "en-US", TRUE),
    Body(WordStr(<<>>), "en-US", TRUE),
    Body(WordMissing, "en-GB", TRUE),
    Body(WordNumber, "en-US", TRUE),
    Body(WordNumber, "zz-ZZ", TRUE),
    Body(WordStr(<<"a">>), "zz-ZZ", TRUE),
    Body(WordStr(<<"a">>), "constructor", TRUE) }


\* If-None-Match header: <<>> when the header is absent, else the validator
NoHeader == <<>>

\* ------------------------------------------------------------------------
\* Static tables of src/index.js
\* ------------------------------------------------------------------------
\* own keys of the voiceMap object literal
voiceMap ==
  [a \in {"en-US", "en-GB", "en-AU", "en-IN"} |->
     CASE a = "en-US" -> [male |-> "en-US-Wavenet-D", female |-> "en-US-Wavenet-F"]
       [] a = "en-GB" -> [male |-> "en-GB-Wavenet-D", female |-> "en-GB-Wavenet-F"]
       [] a = "en-AU" -> [male |-> "en-AU-Wavenet-B", female |-> "en-AU-Wavenet-C"]
       [] a = "en-IN" -> [male |-> "en-IN-Wavenet-C", female |-> "en-IN-Wavenet-D"]]

\* the accents the service supports
Accents == DOMAIN voiceMap

\* property names every object literal inherits from Object.prototype
ObjectPrototypeKeys == {"constructor"}

\* voiceMap[accent]: the own entry, an inherited member of Object.prototype
\* (a truthy value with no male/female fields), or undefined
voiceMapGet(accent) ==
  IF accent \in DOMAIN voiceMap
    THEN [kind |-> "voices", male |-> voiceMap[accent].male,
          female |-> voiceMap[accent].female]
    ELSE IF accent \in ObjectPrototypeKeys
      THEN [kind |-> "inherited", male |-> UNDEFINED, female |-> UNDEFINED]
      ELSE [kind |-> "undefined", male |-> UNDEFINED, female |-> UNDEFINED]

\* the test `!voiceMap[accent]` of the accent validation
accentRejected(accent) == voiceMapGet(accent).kind = "undefined"

accentToPhoneticMap ==
  [a \in {"en-US", "en-GB", "en-AU", "en-IN"} |->
     CASE a = "en-US" -> "US"
       [] a = "en-GB" -> "UK"
       [] a = "en-AU" -> "US"
       [] a = "en-IN" -> "UK"]

\* accentToPhoneticMap[accent] || "US"; an inherited member is truthy and
\* names no field of a dataset entry
accentKeyOf(accent) ==
  IF accent \in DOMAIN accentToPhoneticMap THEN accentToPhoneticMap[accent]
  ELSE IF accent \in ObjectPrototypeKeys THEN "inherited"
  ELSE "US"

genderOf(isMale) == IF isMale THEN "male" ELSE "female"

getCacheKey(word, accent, voice) == <<toLowerCase(word), accent, voice>>

\* etag(word + accent + (isMale ? "m" : "f")): the validator is a digest of
\* the concatenated text, modelled by the text and its length
etag(text) == <<Len(text), text>>

responseETagOf(word, accent, isMale) ==
  etag(word \o <<accent>> \o <<IF isMale THEN "m" ELSE "f">>)

\* ------------------------------------------------------------------------
\* The hosted bulk dataset (PHONETIC_JSON_URL), by version
\* ------------------------------------------------------------------------
\* the versions of the hosted file a fetch can return
Datasets == {1, 2}

\* response.data of a successful fetch of version d: word -> raw entry
rawData(d) ==
  IF d = 1
    THEN (<<"a">> :> [us_ipa |-> "a-us-1", uk_ipa |-> "a-uk-1",
                      examples |-> <<"e1", "e2", "e3", "e4">>])
    ELSE IF d = 2
      THEN (<<"a">> :> [us_ipa |-> "a-us-2", uk_ipa |-> NULL,
                        examples |-> <<>>])
      ELSE <<>>

\* x || null for a string-valued field
orNull(x) == IF x \in {NULL, UNDEFINED, ""} THEN NULL ELSE x

\* the pre-processing loop of the load
processed(d) ==
  [w \in DOMAIN rawData(d) |->
     [US |-> orNull(rawData(d)[w].us_ipa), UK |-> orNull(rawData(d)[w].uk_ipa),
      examples |-> slice0(rawData(d)[w].examples, 3)]]

NoPhoneticData == [phonetic |-> NULL, examples |-> <<>>]

\* the direct lookup of getPhoneticFromJSON in a loaded table
lookupPhonetic(table, normalizedWord, accent) ==
  IF normalizedWord \in DOMAIN table
    THEN [phonetic |-> IF accentKeyOf(accent) = "US" THEN table[normalizedWord].US
                       ELSE IF accentKeyOf(accent) = "UK" THEN table[normalizedWord].UK
                       ELSE NULL,
          examples |-> table[normalizedWord].examples]
    ELSE NoPhoneticData


\* ------------------------------------------------------------------------
\* The definition provider and getWordDetails
\* ------------------------------------------------------------------------
Def(d, e) == [definition |-> d, example |-> e]
Sense(pos, defs) == [partOfSpeech |-> pos, definitions |-> defs]

\* what dictionaryApi.get can produce: a rejection (timeout, network error,
\* status >= 500), a payload without a first entry, or an entry
ProviderError == [kind |-> "error", phonetic |-> NULL, meanings |-> <<>>]
ProviderEmpty == [kind |-> "empty", phonetic |-> NULL, meanings |-> <<>>]
ProviderEntry(ph, ms) == [kind |-> "entry", phonetic |-> ph, meanings |-> ms]

ProviderResponses ==
  { ProviderError,
    ProviderEmpty,
    ProviderEntry("api-ph",
      << Sense("noun", <<Def("n1", "xn1"), Def("n2", NULL)>>),
         Sense("adjective", <<Def("j1", NULL)>>) >>) }

\* the comparator handed to Array.prototype.sort
compareMeanings(a, b) ==
  IF a.partOfSpeech = "adjective" THEN -1
  ELSE IF b.partOfSpeech = "adjective" THEN 1
  ELSE 0

Reverse(s) == [i \in 1..Len(s) |-> s[Len(s) + 1 - i]]

\* Array.prototype.sort of the engine (TimSort) on an array shorter than 64
\* elements: the initial run is counted (and reversed when descending), the
\* rest is inserted by binary insertion.
RECURSIVE runEnd(_, _, _)
runEnd(a, idx, desc) ==
  IF idx > Len(a) THEN Len(a)
  ELSE LET order == compareMeanings(a[idx], a[idx - 1])
       IN IF (desc /\ order >= 0) \/ (~desc /\ order < 0)
            THEN idx - 1
            ELSE runEnd(a, idx + 1, desc)

RECURSIVE insertPos(_, _, _, _)
insertPos(a, pivot, left, right) ==
  IF left >= right THEN left
  ELSE LET mid == left + ((right - left) \div 2)
       IN IF compareMeanings(pivot, a[mid]) < 0
            THEN insertPos(a, pivot, left, mid)
            ELSE insertPos(a, pivot, mid + 1, right)

RECURSIVE binaryInsertionSort(_, _)
binaryInsertionSort(a, start) ==
  IF start > Len(a) THEN a
  ELSE LET pivot == a[start]
           pos == insertPos(a, pivot, 1, start)
           moved == SubSeq(a, 1, pos - 1) \o <<pivot>> \o SubSeq(a, pos, start - 1)
                    \o SubSeq(a, start + 1, Len(a))
       IN binaryInsertionSort(moved, start + 1)

sortMeanings(a) ==
  IF Len(a) < 2 THEN a
  ELSE LET desc == compareMeanings(a[2], a[1]) < 0
           run == runEnd(a, 3, desc)
           first == IF desc THEN Reverse(SubSeq(a, 1, run)) ELSE SubSeq(a, 1, run)
       IN binaryInsertionSort(first \o SubSeq(a, run + 1, Len(a)), run + 1)

\* all (sense, definition) slots of the sorted senses, in scan order
RECURSIVE flattenDefs(_)
flattenDefs(ms) ==
  IF ms = <<>> THEN <<>>
  ELSE [j \in 1..Len(Head(ms).definitions) |->
          [definition |-> Head(ms).definitions[j].definition,
           example |-> Head(ms).definitions[j].example,
           partOfSpeech |-> Head(ms).partOfSpeech]]
       \o flattenDefs(Tail(ms))

\* the nested scan loop: stops as soon as both quotas are full
RECURSIVE scanDefs(_, _, _)
scanDefs(slots, meanings, examples) ==
  IF slots = <<>> \/ (Len(meanings) >= 3 /\ Len(examples) >= 3)
    THEN [meanings |-> meanings, examples |-> examples]
    ELSE LET d == Head(slots)
             m2 == IF Len(meanings) < 3 /\ d.definition # NULL
                     THEN Append(meanings, d.definition) ELSE meanings
             e2 == IF Len(examples) < 3 /\ d.example # NULL
                     THEN Append(examples, [text |-> d.example,
                                            partOfSpeech |-> d.partOfSpeech])
                     ELSE examples
         IN scanDefs(Tail(slots), m2, e2)

getWordDetails(response) ==
  IF response.kind = "error"
    THEN [phonetic |-> NULL, meanings |-> <<"Definition service unavailable.">>,
          examples |-> <<>>]
  ELSE IF response.kind = "empty"
    THEN [phonetic |-> NULL, meanings |-> <<"No details available">>,
          examples |-> <<>>]
  ELSE LET got == scanDefs(flattenDefs(sortMeanings(response.meanings)), <<>>, <<>>)
       IN [phonetic |-> orNull(response.phonetic),
           meanings |-> IF Len(got.meanings) > 0 THEN got.meanings
                        ELSE <<"No details available">>,
           examples |-> got.examples]


\* ------------------------------------------------------------------------
\* Environments: the clients and the upstreams of a behaviour
\* ------------------------------------------------------------------------
\* validators a client can send in If-None-Match
InmValues ==
  { NoHeader, responseETagOf(<<"a">>, "en-US", TRUE) }

\* what the fetch of the bulk dataset can produce: the data of a version, an
\* empty response, a rejection (network error, timeout of 4000 ms), or a
\* payload with an entry that is null, on which the pre-processing loop throws
FetchOutcomes ==
  {[kind |-> "data", d |-> d] : d \in Datasets}
    \cup {[kind |-> "empty", d |-> 0], [kind |-> "error", d |-> 0],
          [kind |-> "malformed", d |-> 0]}

FetchData(d) == [kind |-> "data", d |-> d]
FetchEmpty == [kind |-> "empty", d |-> 0]
FetchError == [kind |-> "error", d |-> 0]
FetchMalformed == [kind |-> "malformed", d |-> 0]

\* An environment fixes, for one behaviour, how many requests the clients
\* keep in flight, the request bodies and validators they send, the answers
\* of the definition provider, of the synthesis service (TRUE: audio, FALSE:
\* an error) and of the dataset host, whether GET /reload-phonetics is
\* called, and which caches live long enough for entries to expire.
Environment(clients, bodies, inms, providers, tts, outcomes, reload, expiry) ==
  [clients |-> clients, bodies |-> bodies, inms |-> inms,
   providers |-> providers, tts |-> tts, outcomes |-> outcomes,
   reload |-> reload, expiry |-> expiry]

ProviderFull ==
  ProviderEntry("api-ph",
    << Sense("noun", <<Def("n1", "xn1"), Def("n2", NULL)>>),
       Sense("adjective", <<Def("j1", NULL)>>) >>)

Environments ==
  { \* cold start: overlapping requests for one word, failing loads
    Environment(MaxReq, {Body(WordStr(<<"a">>), "en-US", TRUE)},
                {NoHeader}, {ProviderFull}, {TRUE},
                {FetchData(1), FetchEmpty, FetchError, FetchMalformed}, FALSE, {}),
    \* cold start with reloads while a request is in flight
    Environment(1, {Body(WordStr(<<"a">>), "en-US", TRUE)},
                {NoHeader}, {ProviderFull}, {TRUE},
                {FetchData(1), FetchMalformed}, TRUE, {}),
    \* conditional retrieval: two spellings of one key and a second key
    Environment(2, {Body(WordStr(<<"a">>), "en-US", TRUE),
                    Body(WordStr(<<" ", "A">>), "en-US", TRUE),
                    Body(WordStr(<<"a">>), "en-GB", FALSE)},
                InmValues, {ProviderError, ProviderFull}, {TRUE},
                {FetchData(1)}, FALSE, {"response"}),
    \* reload: the hosted dataset changes between two loads
    Environment(1, {Body(WordStr(<<"a">>), "en-US", TRUE),
                    Body(WordStr(<<"a">>), "en-US", FALSE)},
                {NoHeader}, {ProviderFull}, {TRUE},
                {FetchData(1), FetchData(2)}, TRUE, {"phonetic"}),
    \* validation: every rejected body, and the bodies that pass with an
    \* empty word or an inherited accent
    Environment(1, Bodies \ {Body(WordStr(<<" ", "A">>), "en-US", TRUE),
                             Body(WordStr(<<"a">>), "en-GB", FALSE)},
                {NoHeader}, {ProviderEmpty, ProviderFull}, BOOLEAN,
                {FetchData(1)}, FALSE, {"phonetic"}) }

\* ------------------------------------------------------------------------
\* State
\* ------------------------------------------------------------------------
VARIABLES
  phoneticTranscriptions, \* 0 (null) or the version of the processed table
  phoneticLoadPromise,    \* 0 (null) or the index in loads of the load promise
  loads,                  \* every load promise created so far
  cache,                  \* response cache: cache key -> [data, etag]
  phoneticCache,          \* <<word, accent>> -> getPhoneticFromJSON result
  req,                    \* the POST /get-pronunciation handlers in progress
  arrival,                \* the request received by the last step, if any
  out,                    \* the response sent by the last step, if any
  issued,                 \* every <<cache key, ETag>> sent with a 200 so far
  stored,                 \* cache key -> the 200 response that stored its entry, and its request body
  phoneticStored,         \* every <<pair, result>> put in phoneticCache so far
  delivered,              \* the versions that loads resolving with true have processed
  env,                    \* the clients and upstreams of the behaviour
  letterCache,            \* letter -> shard (the letter-shard handlers)
  variant,                \* the handler file that runs: "index", "part_002", "part_003"
  call,                   \* the call of a helper function made on its own, if any
  ret                     \* the value that call returned, once it has

vars == <<phoneticTranscriptions, phoneticLoadPromise, loads, cache, phoneticCache,
          req, arrival, out, issued, stored, phoneticStored, delivered, env,
          letterCache, variant, call, ret>>

\* the state of src/index.js and the state of the letter-shard handlers
indexVars == <<phoneticTranscriptions, phoneticLoadPromise, loads, phoneticCache, stored,
               delivered>>
shardVars == <<letterCache, variant>>
helperVars == <<call, ret>>

\* a load promise: st is the state of its upstream fetch ("pending", or the
\* value it resolved with), timer the state of the 5-minute timer of its
\* finally block, by the route that created it
NewLoad(by) == [st |-> "pending", timer |-> "none", by |-> by]

EmptyMap == [x \in {} |-> x]

NoUpstream == [fetch |-> 0, dict |-> 0, tts |-> 0]

IdleReq ==
  [pc |-> "idle", body |-> Body(WordMissing, "en-US", TRUE),
   word |-> <<>>, load |-> 0, phoneticData |-> NoPhoneticData,
   wordDetails |-> <<>>, tts |-> "none", first |-> "none", loaded |-> FALSE,
   upstream |-> NoUpstream]

Init ==
  /\ phoneticTranscriptions = 0
  /\ phoneticLoadPromise = 0
  /\ loads = <<>>
  /\ cache = EmptyMap
  /\ phoneticCache = EmptyMap
  /\ req = [r \in Requests |-> IdleReq]
  /\ arrival = <<>>
  /\ out = <<>>
  /\ issued = {}
  /\ stored = EmptyMap
  /\ phoneticStored = {}
  /\ delivered = {}
  /\ env \in Environments
  /\ letterCache = EmptyMap
  /\ variant = "index"
  /\ call = <<>>
  /\ ret = <<>>

\* ------------------------------------------------------------------------
\* loadPhoneticTranscriptions and getPhoneticFromJSON
\* ------------------------------------------------------------------------
\* the synchronous part of loadPhoneticTranscriptions: the pending or settled
\* promise is returned when there is one, else a promise is created and its
\* executor issues the upstream fetch
\* variant without the early return on an existing promise
loadPhoneticTranscriptions_noDedup(promise, lds, by) ==
  [promise |-> Len(lds) + 1, loads |-> Append(lds, NewLoad(by))]

loadPhoneticTranscriptions(promise, lds, by) ==
  IF promise # 0
    THEN [promise |-> promise, loads |-> lds]
    ELSE [promise |-> Len(lds) + 1, loads |-> Append(lds, NewLoad(by))]

getPhoneticFromJSON_noStore(word, accent, table, pcache) ==
  LET normalizedWord == toLowerCase(word)
      cacheKey == <<normalizedWord, accent>>
  IN IF cacheKey \in DOMAIN pcache
       THEN [result |-> pcache[cacheKey], phoneticCache |-> pcache]
     ELSE IF table = 0
       THEN [result |-> NoPhoneticData, phoneticCache |-> pcache]
     ELSE [result |-> lookupPhonetic(processed(table), normalizedWord, accent),
           phoneticCache |-> pcache]

\* variant that also stores the empty result it returns while no table is
\* loaded
getPhoneticFromJSON_cachesUnloaded(word, accent, table, pcache) ==
  LET normalizedWord == toLowerCase(word)
      cacheKey == <<normalizedWord, accent>>
      result == IF table = 0 THEN NoPhoneticData
                ELSE lookupPhonetic(processed(table), normalizedWord, accent)
  IN IF cacheKey \in DOMAIN pcache
       THEN [result |-> pcache[cacheKey], phoneticCache |-> pcache]
       ELSE [result |-> result, phoneticCache |-> (cacheKey :> result) @@ pcache]

getPhoneticFromJSON(word, accent, table, pcache) ==
  LET normalizedWord == toLowerCase(word)
      cacheKey == <<normalizedWord, accent>>
  IN IF cacheKey \in DOMAIN pcache
       THEN [result |-> pcache[cacheKey], phoneticCache |-> pcache]
     ELSE IF table = 0
       THEN [result |-> NoPhoneticData, phoneticCache |-> pcache]
     ELSE LET result == lookupPhonetic(processed(table), normalizedWord, accent)
          IN [result |-> result, phoneticCache |-> (cacheKey :> result) @@ pcache]

\* every result that phoneticCache.set has stored, kept after its entry expires
notePhonetic(sto, pcache) ==
  sto \cup {<<k, pcache[k]>> : k \in DOMAIN pcache}

\* ------------------------------------------------------------------------
\* POST /get-pronunciation
\* ------------------------------------------------------------------------
\* a response of the route, with the locals of the handler that sent it;
\* status 0 stands for a handler that ended without sending any response
response(r, rec, status, body, tag) ==
  <<[route |-> "post", slot |-> r, body |-> rec.body, word |-> rec.word,
     status |-> status, resBody |-> body, resEtag |-> tag,
     upstream |-> rec.upstream, rec |-> rec]>>

ErrorBody(text) == <<[error |-> text]>>

ProcessingError(word) ==
  <<[error |-> "Error processing pronunciation request",
     suggestion |-> "Please try again in a moment", word |-> word]>>

\* the handler from the lookup of the phonetic data to the Promise.all:
\* both upstream calls are issued before the handler suspends
startCalls(rec, table, pcache) ==
  LET got == getPhoneticFromJSON(rec.word, rec.body.accent, table, pcache)
  IN [rec |-> [rec EXCEPT !.pc = "awaitAll", !.phoneticData = got.result,
                          !.loaded = (table # 0), !.tts = "pending",
                          !.upstream.dict = 1, !.upstream.tts = 1],
      phoneticCache |-> got.phoneticCache]

voiceNameOf(accent, isMale) ==
  IF isMale THEN voiceMapGet(accent).male ELSE voiceMapGet(accent).female

\* ttsResponse[0].audioContent.toString("base64") of a successful synthesis:
\* a function of the synthesis request
audioContentOf(word, accent, voiceName) == <<"mp3", word, accent, voiceName>>

\* variant that prefers the phonetic of the definition provider
finalPhoneticOf_providerFirst(phoneticData, wordDetails) ==
  IF wordDetails.phonetic # NULL THEN wordDetails.phonetic
  ELSE phoneticData.phonetic

\* phoneticData.phonetic || wordDetails.phonetic
finalPhoneticOf(phoneticData, wordDetails) ==
  IF phoneticData.phonetic # NULL THEN phoneticData.phonetic
  ELSE wordDetails.phonetic

responseDataOf(rec) ==
  LET wordDetails == rec.wordDetails[1]
      phoneticData == rec.phoneticData
      finalPhonetic == finalPhoneticOf(phoneticData, wordDetails)
      finalExamples ==
        IF Len(phoneticData.examples) > 0
          THEN [i \in 1..Len(slice0(phoneticData.examples, 3)) |->
                  [text |-> phoneticData.examples[i], partOfSpeech |-> ""]]
          ELSE slice0(wordDetails.examples, 3)
      voiceName == voiceNameOf(rec.body.accent, rec.body.isMale)
  IN [audioContent |-> audioContentOf(rec.word, rec.body.accent, voiceName),
      phonetic |-> IF finalPhonetic # NULL THEN finalPhonetic
                   ELSE "Phonetic transcription not available.",
      meanings |-> slice0(wordDetails.meanings, 3),
      examples |-> finalExamples,
      audioMetadata |-> [format |-> "mp3", accent |-> rec.body.accent,
                         voice |-> voiceName]]

\* NodeCache.set with the maxKeys option: it throws when the cache is full
cacheSetThrows(c) == Cardinality(DOMAIN c) >= MaxKeys

mapSet(c, key, value) ==
  [k \in DOMAIN c \cup {key} |-> IF k = key THEN value ELSE c[k]]

mapDel(c, key) == [k \in DOMAIN c \ {key} |-> c[k]]

cacheKeyOf(word, body) == getCacheKey(word, body.accent, genderOf(body.isMale))

\* variant of the catch block that stores the error document under the key
catchBlock_cachesError(r, rec, c) ==
  [out |-> response(r, rec, 500, ProcessingError(rec.word), NoHeader),
   cache |-> mapSet(c, cacheKeyOf(rec.word, rec.body),
                    [data |-> ProcessingError(rec.word)[1], etag |-> NoHeader])]

\* variant of the catch block that stores a document without audio, so that
\* later requests for the key are not resolved again
catchBlock_cachesSilence(r, rec, c) ==
  [out |-> response(r, rec, 500, ProcessingError(rec.word), NoHeader),
   cache |-> mapSet(c, cacheKeyOf(rec.word, rec.body),
                    [data |-> [audioContent |-> <<>>],
                     etag |-> responseETagOf(rec.word, rec.body.accent, rec.body.isMale)])]

\* the catch block of the handler: 500, nothing is stored
catchBlock(r, rec, c) ==
  [out |-> response(r, rec, 500, ProcessingError(rec.word), NoHeader),
   cache |-> c]

\* variant that reads the results of Promise.all in their order of
\* completion: with the synthesis first, its result is taken for the details
finish_byCompletion(r, rec, c) ==
  IF rec.first = "tts" THEN catchBlock(r, rec, c)
  ELSE IF cacheSetThrows(c) THEN catchBlock(r, rec, c)
  ELSE [out |-> response(r, rec, 200, <<responseDataOf(rec)>>,
                         responseETagOf(rec.word, rec.body.accent, rec.body.isMale)),
        cache |-> mapSet(c, cacheKeyOf(rec.word, rec.body),
                         [data |-> responseDataOf(rec),
                          etag |-> responseETagOf(rec.word, rec.body.accent,
                                                  rec.body.isMale)])]

\* variant that stores the entry under a fingerprint without the gender
finish_otherEtag(r, rec, c) ==
  LET responseData == responseDataOf(rec)
      responseETag == responseETagOf(rec.word, rec.body.accent, rec.body.isMale)
  IN IF cacheSetThrows(c)
       THEN [out |-> response(r, rec, 500, ProcessingError(rec.word), NoHeader),
             cache |-> c]
       ELSE [out |-> response(r, rec, 200, <<responseData>>, responseETag),
             cache |-> mapSet(c, cacheKeyOf(rec.word, rec.body),
                              [data |-> responseData,
                               etag |-> etag(rec.word \o <<rec.body.accent>>)])]

\* the handler made its lookup while no table was loaded, or its call of
\* the definition provider failed or brought no entry
degraded(rec) ==
  \/ ~rec.loaded
  \/ rec.wordDetails[1] \in {getWordDetails(ProviderError), getWordDetails(ProviderEmpty)}

\* variant that stores complete documents only
finish_skipsDegraded(r, rec, c) ==
  LET responseData == responseDataOf(rec)
      responseETag == responseETagOf(rec.word, rec.body.accent, rec.body.isMale)
  IN IF cacheSetThrows(c)
       THEN catchBlock(r, rec, c)
       ELSE [out |-> response(r, rec, 200, <<responseData>>, responseETag),
             cache |-> IF degraded(rec)
                         THEN c
                         ELSE mapSet(c, cacheKeyOf(rec.word, rec.body),
                                     [data |-> responseData, etag |-> responseETag])]

\* the handler after Promise.all has resolved: merge, store, answer
finish(r, rec, c) ==
  LET responseData == responseDataOf(rec)
      responseETag == responseETagOf(rec.word, rec.body.accent, rec.body.isMale)
  IN IF cacheSetThrows(c)
       THEN catchBlock(r, rec, c)
       ELSE [out |-> response(r, rec, 200, <<responseData>>, responseETag),
             cache |-> mapSet(c, cacheKeyOf(rec.word, rec.body),
                              [data |-> responseData, etag |-> responseETag])]

\* variant of the conditional check that never matches
etagMatches_never(clientEtag, cachedResponse) == FALSE

\* variant that answers 304 to every request that presents a validator
etagMatches_anyValidator(clientEtag, cachedResponse) == clientEtag # NoHeader

\* clientEtag === cachedResponse.etag
etagMatches(clientEtag, cachedResponse) == clientEtag = cachedResponse.etag

\* `!rawWord` after the destructuring default (word = "" when undefined)
wordIsFalsy(w) == w.kind = "undefined" \/ (w.kind = "string" /\ w.str = <<>>)

\* what becomes of a request whose handler promise rejects before its try
\* block: the router of Express 4 drops the rejection (no response is ever
\* sent), the router of Express 5 answers 500 through its error handler
EscapeStatuses == {0, 500}

\* bookkeeping of what the clients have been sent
noteResponse(o, iss, sto) ==
  IF o # <<>> /\ o[1].route = "post" /\ o[1].status = 200
    THEN LET k == cacheKeyOf(o[1].word, o[1].body)
         IN [issued |-> iss \cup {<<k, o[1].resEtag>>},
             stored |-> IF o[1].upstream.tts = 1
                          THEN mapSet(sto, k, [data |-> o[1].resBody[1],
                                               etag |-> o[1].resEtag,
                                               by |-> o[1].body,
                                               degraded |-> degraded(o[1].rec)])
                          ELSE sto]
    ELSE [issued |-> iss, stored |-> sto]

\* The handler of a request with body b and If-None-Match inm, from its
\* arrival to its first pending await or to its response; r is the lowest
\* free handler slot.
postGetPronunciation(r, b, inm) ==
  LET rec0 == [IdleReq EXCEPT !.body = b]
      rec == [rec0 EXCEPT !.word = toLowerCase(trim(b.word.str))]
      cacheKey == cacheKeyOf(rec.word, b)
      same == [req |-> req, out |-> <<>>, promise |-> phoneticLoadPromise,
               loads |-> loads, phoneticCache |-> phoneticCache]
  IN IF wordIsFalsy(b.word)
       THEN {[same EXCEPT !.out = response(r, rec0, 400, ErrorBody("Word is required."), NoHeader)]}
     ELSE IF b.word.kind # "string"
       \* rawWord.trim is not a function: the TypeError is thrown outside the try block
       THEN {[same EXCEPT !.out = response(r, rec0, st, <<>>, NoHeader)] : st \in EscapeStatuses}
     ELSE IF accentRejected(b.accent)
       THEN {[same EXCEPT !.out = response(r, rec, 400, ErrorBody("Invalid accent selected"), NoHeader)]}
     ELSE IF cacheKey \in DOMAIN cache /\ etagMatches(inm, cache[cacheKey])
       THEN {[same EXCEPT !.out = response(r, rec, 304, <<>>, NoHeader)]}
     ELSE IF cacheKey \in DOMAIN cache
       THEN {[same EXCEPT !.out = response(r, rec, 200, <<cache[cacheKey].data>>,
                                           cache[cacheKey].etag)]}
     ELSE IF phoneticTranscriptions = 0
       THEN LET ld == loadPhoneticTranscriptions(phoneticLoadPromise, loads, "post")
                rec1 == [rec EXCEPT !.load = ld.promise,
                                    !.upstream.fetch = Len(ld.loads) - Len(loads)]
                go == startCalls(rec1, phoneticTranscriptions, phoneticCache)
            IN IF ld.loads[ld.promise].st = "pending"
                 THEN {[same EXCEPT !.req = [req EXCEPT ![r] = [rec1 EXCEPT !.pc = "awaitLoad"]],
                                    !.promise = ld.promise, !.loads = ld.loads]}
                 \* the promise is already settled: the handler goes on in the same turn
                 ELSE {[same EXCEPT !.req = [req EXCEPT ![r] = go.rec],
                                    !.phoneticCache = go.phoneticCache]}
     ELSE LET go == startCalls(rec, phoneticTranscriptions, phoneticCache)
          IN {[same EXCEPT !.req = [req EXCEPT ![r] = go.rec],
                           !.phoneticCache = go.phoneticCache]}

Receive(r, b, inm) ==
  /\ r <= env.clients
  /\ b \in env.bodies
  /\ inm \in env.inms
  /\ req[r].pc = "idle"
  /\ \A q \in Requests : q < r => req[q].pc # "idle"
  /\ \E nxt \in postGetPronunciation(r, b, inm) :
       /\ Len(nxt.loads) <= MaxLoads
       /\ req' = nxt.req
       /\ out' = nxt.out
       /\ phoneticLoadPromise' = nxt.promise
       /\ loads' = nxt.loads
       /\ phoneticCache' = nxt.phoneticCache
       /\ phoneticStored' = notePhonetic(phoneticStored, nxt.phoneticCache)
       /\ issued' = noteResponse(nxt.out, issued, stored).issued
       /\ stored' = noteResponse(nxt.out, issued, stored).stored
  /\ arrival' = <<[slot |-> r, body |-> b, inm |-> inm]>>
  /\ UNCHANGED <<phoneticTranscriptions, delivered, cache, env, letterCache, variant, call, ret>>

\* ------------------------------------------------------------------------
\* Completion of an upstream fetch of the bulk dataset
\* ------------------------------------------------------------------------
\* variant that resumes only the first handler suspended on load l
resumeWaiters_firstOnly(r, l, rq, table, pcache) ==
  LET waiting == {q \in Requests : rq[q].pc = "awaitLoad" /\ rq[q].load = l}
  IN IF waiting = {} THEN [req |-> rq, phoneticCache |-> pcache]
     ELSE LET q == CHOOSE x \in waiting : \A y \in waiting : x <= y
              go == startCalls(rq[q], table, pcache)
          IN [req |-> [rq EXCEPT ![q] = go.rec], phoneticCache |-> go.phoneticCache]

\* the handlers suspended on load l run on, in arrival order
RECURSIVE resumeWaiters(_, _, _, _, _)
resumeWaiters(r, l, rq, table, pcache) ==
  IF r > MaxReq THEN [req |-> rq, phoneticCache |-> pcache]
  ELSE IF rq[r].pc = "awaitLoad" /\ rq[r].load = l
    THEN LET go == startCalls(rq[r], table, pcache)
         IN resumeWaiters(r + 1, l, [rq EXCEPT ![r] = go.rec], table, go.phoneticCache)
    ELSE resumeWaiters(r + 1, l, rq, table, pcache)

\* the table left behind by a loop that stops at the first entry of the
\* payload: an object without any word
PartialTable == 3

\* variant that assigns an empty object to phoneticTranscriptions and fills it
\* entry by entry
settleLoad_inPlace(table, outcome) ==
  IF outcome.kind = "data"
    THEN [table |-> outcome.d, st |-> "true"]
  ELSE IF outcome.kind = "malformed"
    THEN [table |-> PartialTable, st |-> "false"]
  ELSE [table |-> table, st |-> "false"]

\* variant that drops the table when a load fails
settleLoad_clearsOnFailure(table, outcome) ==
  IF outcome.kind = "data"
    THEN [table |-> outcome.d, st |-> "true"]
    ELSE [table |-> 0, st |-> "false"]

\* the executor of a load after its await: the table is replaced on success
\* and the promise resolves with true or false; an exception of the
\* pre-processing loop leaves the local object behind and the table as it was
settleLoad(table, outcome) ==
  IF outcome.kind = "data"
    THEN [table |-> outcome.d, st |-> "true"]
    ELSE [table |-> table, st |-> "false"]

\* The upstream fetch of load l completes: the executor settles the promise,
\* its finally block arms the 5-minute timer, the GET /reload-phonetics
\* handler that awaits it answers, and every POST handler awaiting it runs on.
LoadComplete(l, outcome) ==
  /\ l \in 1..Len(loads)
  /\ loads[l].st = "pending"
  /\ outcome \in env.outcomes
  /\ LET settled == settleLoad(phoneticTranscriptions, outcome)
         resumed == resumeWaiters(1, l, req, settled.table, phoneticCache)
     IN /\ phoneticTranscriptions' = settled.table
        /\ loads' = [loads EXCEPT ![l] = [st |-> settled.st, timer |-> "armed", by |-> "none"]]
        /\ delivered' = IF settled.st = "true" THEN delivered \cup {outcome.d} ELSE delivered
        /\ req' = resumed.req
        /\ phoneticCache' = resumed.phoneticCache
        /\ phoneticStored' = notePhonetic(phoneticStored, resumed.phoneticCache)
        /\ out' = IF loads[l].by = "reload"
                    THEN <<[route |-> "reload", load |-> l,
                            status |-> IF settled.st = "true" THEN 200 ELSE 500]>>
                    ELSE <<>>
  /\ arrival' = <<>>
  /\ UNCHANGED <<phoneticLoadPromise, cache, issued, stored, env, letterCache, variant, call, ret>>

\* variant of the callback that leaves the promise in place
TimerFire_keepsPromise(l) ==
  /\ l \in 1..Len(loads)
  /\ loads[l].timer = "armed"
  /\ loads' = [loads EXCEPT ![l].timer = "fired"]
  /\ arrival' = <<>>
  /\ out' = <<>>
  /\ UNCHANGED <<phoneticTranscriptions, delivered, phoneticLoadPromise, cache, phoneticCache, req, issued, stored, env, letterCache, phoneticStored, variant, call, ret>>

\* the callback of the timer armed by load l
TimerFire(l) ==
  /\ l \in 1..Len(loads)
  /\ loads[l].timer = "armed"
  /\ phoneticLoadPromise' = 0
  /\ loads' = [loads EXCEPT ![l].timer = "fired"]
  /\ arrival' = <<>>
  /\ out' = <<>>
  /\ UNCHANGED <<phoneticTranscriptions, delivered, cache, phoneticCache, req, issued, stored, env, letterCache, phoneticStored, variant, call, ret>>

\* GET /reload-phonetics up to its await: the promise is reset and a fresh
\* load is started
ReloadPhonetics ==
  /\ env.reload
  /\ LET ld == loadPhoneticTranscriptions(0, loads, "reload")
     IN /\ Len(ld.loads) <= MaxLoads
        /\ phoneticLoadPromise' = ld.promise
        /\ loads' = ld.loads
  /\ arrival' = <<>>
  /\ out' = <<>>
  /\ UNCHANGED <<phoneticTranscriptions, delivered, cache, phoneticCache, req, issued, stored, env, letterCache, phoneticStored, variant, call, ret>>

\* ------------------------------------------------------------------------
\* Completion of the definition-provider call and of the synthesis call
\* ------------------------------------------------------------------------
\* a handler whose Promise.all has resolved runs to its response
Finish(r, rec) ==
  LET fin == finish(r, rec, cache)
      note == noteResponse(fin.out, issued, stored)
  IN /\ req' = [req EXCEPT ![r] = IdleReq]
     /\ out' = fin.out
     /\ cache' = fin.cache
     /\ issued' = note.issued
     /\ stored' = note.stored

\* which of the two promises given to Promise.all settled first
settledFirst(first, which) == IF first = "none" THEN which ELSE first

DictComplete(r, resp) ==
  /\ resp \in env.providers
  /\ req[r].pc = "awaitAll"
  /\ req[r].wordDetails = <<>>
  /\ LET rec == [req[r] EXCEPT !.wordDetails = <<getWordDetails(resp)>>,
                               !.first = settledFirst(@, "dict")]
     IN IF rec.tts = "ok"
          THEN Finish(r, rec)
          ELSE /\ req' = [req EXCEPT ![r] = rec]
               /\ out' = <<>>
               /\ UNCHANGED <<cache, issued, stored>>
  /\ arrival' = <<>>
  /\ UNCHANGED <<phoneticTranscriptions, delivered, phoneticLoadPromise, loads, phoneticCache, env, letterCache, phoneticStored, variant, call, ret>>

TtsComplete(r, ok) ==
  /\ ok \in env.tts
  /\ req[r].pc = "awaitAll"
  /\ req[r].tts = "pending"
  /\ IF ~ok
       \* Promise.all rejects at once: the catch block answers 500
       THEN LET caught == catchBlock(r, [req[r] EXCEPT !.tts = "failed",
                                                       !.first = settledFirst(@, "tts")],
                                     cache)
            IN /\ req' = [req EXCEPT ![r] = IdleReq]
               /\ out' = caught.out
               /\ cache' = caught.cache
               /\ UNCHANGED <<issued, stored>>
       ELSE LET rec == [req[r] EXCEPT !.tts = "ok", !.first = settledFirst(@, "tts")]
            IN IF rec.wordDetails # <<>>
                 THEN Finish(r, rec)
                 ELSE /\ req' = [req EXCEPT ![r] = rec]
                      /\ out' = <<>>
                      /\ UNCHANGED <<cache, issued, stored>>
  /\ arrival' = <<>>
  /\ UNCHANGED <<phoneticTranscriptions, delivered, phoneticLoadPromise, loads, phoneticCache, env, letterCache, phoneticStored, variant, call, ret>>

\* ------------------------------------------------------------------------
\* Expiry of cache entries (stdTTL)
\* ------------------------------------------------------------------------
ExpireResponse(k) ==
  /\ "response" \in env.expiry
  /\ k \in DOMAIN cache
  /\ cache' = mapDel(cache, k)
  /\ stored' = mapDel(stored, k)
  /\ arrival' = <<>>
  /\ out' = <<>>
  /\ UNCHANGED <<phoneticTranscriptions, delivered, phoneticLoadPromise, loads, phoneticCache, req, issued, env, letterCache, phoneticStored, variant, call, ret>>

ExpirePhonetic(k) ==
  /\ "phonetic" \in env.expiry
  /\ k \in DOMAIN phoneticCache
  /\ phoneticCache' = mapDel(phoneticCache, k)
  /\ arrival' = <<>>
  /\ out' = <<>>
  /\ UNCHANGED <<phoneticTranscriptions, delivered, phoneticLoadPromise, loads, cache, req, issued, stored, env, letterCache, phoneticStored, variant, call, ret>>

Next ==
  \/ \E r \in Requests, b \in Bodies, inm \in InmValues : Receive(r, b, inm)
  \/ \E l \in 1..MaxLoads, outcome \in FetchOutcomes : LoadComplete(l, outcome)
  \/ \E l \in 1..MaxLoads : TimerFire(l)
  \/ ReloadPhonetics
  \/ \E r \in Requests, resp \in ProviderResponses : DictComplete(r, resp)
  \/ \E r \in Requests, ok \in BOOLEAN : TtsComplete(r, ok)
  \/ \E k \in DOMAIN cache : ExpireResponse(k)
  \/ \E k \in DOMAIN phoneticCache : ExpirePhonetic(k)

Spec == Init /\ [][Next]_vars

\* The event loop runs every callback that is due: the upstream fetch of a
\* load settles (axios gives up after its timeout of 4000 ms) and the
\* 5-minute timer of a settled load fires.
Fairness ==
  \A l \in 1..MaxLoads :
     /\ WF_vars(\E outcome \in FetchOutcomes : LoadComplete(l, outcome))
     /\ WF_vars(TimerFire(l))

SpecLive == Spec /\ Fairness

\* ------------------------------------------------------------------------
\* The letter-shard handlers (src/unnamed/part_002, src/unnamed/part_003)
\* ------------------------------------------------------------------------
Variants == {"part_002", "part_003"}

\* a request body of the handlers that accept a speed
ShardBody(w, a, m, sp) == [word |-> w, accent |-> a, isMale |-> m, speed |-> sp]

\* the destructuring default speed = "normal"
speedOf(b) == IF b.speed = UNDEFINED THEN "normal" ELSE b.speed

\* speaking rates, in tenths
speedMap == [sp \in {"slow", "normal", "fast"} |->
               CASE sp = "slow" -> 6 [] sp = "normal" -> 9 [] sp = "fast" -> 12]

\* a number of the rate table, or a member inherited from Object.prototype
RateNumber(tenths) == [kind |-> "number", tenths |-> tenths]
RateInherited == [kind |-> "inherited", tenths |-> 0]

\* speedMap[speed] || speedMap.normal: an own key gives its rate, an
\* inherited member of Object.prototype is truthy and is taken as it is,
\* anything else falls back to the normal rate
speakingRateOf(speed) ==
  IF speed \in DOMAIN speedMap THEN RateNumber(speedMap[speed])
  ELSE IF speed \in ObjectPrototypeKeys THEN RateInherited
  ELSE RateNumber(speedMap["normal"])

\* part_003: getCacheKey(word, accent, voice, speed);
\* part_002: getCacheKey(word, accent, voice) + `_${speed}`
shardCacheKey(word, b) ==
  <<toLowerCase(word), b.accent, genderOf(b.isMale), speedOf(b)>>

\* part_002 leaves the speed out of the validator, part_003 appends it
shardETagOf(v, word, b) ==
  LET base == word \o <<b.accent>> \o <<IF b.isMale THEN "m" ELSE "f">>
  IN IF v = "part_003" THEN etag(base \o <<speedOf(b)>>) ELSE etag(base)

\* the letters that have a hosted shard file
Letters == {"a", "b"}

\* letter >= "a" && letter <= "z", over the characters of the model
isLowerLetter(c) == c \in {"a", "b"}

\* the hosted file of a letter: word -> entry
shardFile(letter) ==
  IF letter = "a"
    THEN (<<"a">> :> [us_ipa |-> "a-us", uk_ipa |-> "a-uk",
                      meanings |-> <<"m1", "m2", "m3", "m4">>,
                      examples |-> <<"x1", "x2", "x3", "x4">>,
                      synonyms |-> <<"s1">>, antonyms |-> <<>>])
    ELSE EmptyMap

\* data[normalized] || null, as a sequence of at most one entry
shardEntry(data, normalized) ==
  IF normalized \in DOMAIN data THEN <<data[normalized]>> ELSE <<>>

\* fetchWordData up to its await: the entry of the word (or null) when no
\* fetch is needed, else the letter whose file is fetched
fetchWordData(v, word, lc) ==
  LET normalized == toLowerCase(trim(word))
      letter == IF v = "part_003" THEN normalized[1] ELSE toLowerCaseChar(word[1])
  IN IF word = <<>>
       THEN [kind |-> "done", wordData |-> <<>>]
     ELSE IF v = "part_003" /\ (normalized = <<>> \/ ~isLowerLetter(letter))
       THEN [kind |-> "done", wordData |-> <<>>]
     ELSE IF letter \in DOMAIN lc
       THEN [kind |-> "done", wordData |-> shardEntry(lc[letter], toLowerCase(word))]
     ELSE [kind |-> "fetch", letter |-> letter]

\* variant whose catch block caches an empty shard for the letter
fetchWordDataDone_cachesFailure(word, letter, ok, lc) ==
  IF ok
    THEN [wordData |-> shardEntry(shardFile(letter), toLowerCase(word)),
          letterCache |-> mapSet(lc, letter, shardFile(letter))]
    ELSE [wordData |-> <<>>, letterCache |-> mapSet(lc, letter, EmptyMap)]

\* fetchWordData after its await
fetchWordDataDone(word, letter, ok, lc) ==
  IF ok
    THEN [wordData |-> shardEntry(shardFile(letter), toLowerCase(word)),
          letterCache |-> mapSet(lc, letter, shardFile(letter))]
    ELSE [wordData |-> <<>>, letterCache |-> lc]

NoShardUpstream == [shard |-> 0, tts |-> 0]

ShardIdleReq ==
  [pc |-> "idle", body |-> ShardBody(WordMissing, "en-US", TRUE, UNDEFINED),
   word |-> <<>>, letter |-> "", wordData |-> <<>>, inm |-> NoHeader,
   fetch |-> "none", ttsRequest |-> <<>>, upstream |-> NoShardUpstream]

\* ttsRequestObj: the text, the voice and the speaking rate of the call
ttsRequestObj(rec) ==
  [text |-> rec.word, languageCode |-> rec.body.accent,
   name |-> voiceNameOf(rec.body.accent, rec.body.isMale),
   speakingRate |-> speakingRateOf(speedOf(rec.body))]

\* the handler from the result of fetchWordData to the synthesis call
startSynthesis(rec, wordData) ==
  [rec EXCEPT !.pc = "awaitTts", !.wordData = wordData, !.upstream.tts = 1,
              !.ttsRequest = <<ttsRequestObj(rec)>>]

shardResponseData(rec) ==
  LET b == rec.body
      voiceName == voiceNameOf(b.accent, b.isMale)
      wd == rec.wordData
  IN [audioContent |-> <<"mp3", rec.ttsRequest[1]>>,
      phonetic |-> IF wd = <<>> THEN NULL
                   ELSE IF b.accent = "en-GB" THEN wd[1].uk_ipa ELSE wd[1].us_ipa,
      meanings |-> IF wd = <<>> THEN <<>> ELSE wd[1].meanings,
      examples |-> IF wd = <<>> THEN <<>>
                   ELSE [i \in 1..Len(wd[1].examples) |->
                           [text |-> wd[1].examples[i], partOfSpeech |-> ""]],
      synonyms |-> IF wd = <<>> THEN <<>> ELSE wd[1].synonyms,
      antonyms |-> IF wd = <<>> THEN <<>> ELSE wd[1].antonyms,
      audioMetadata |-> [format |-> "mp3", accent |-> b.accent,
                         voice |-> voiceName, speed |-> speedOf(b)]]

\* The handler of a request with body b and If-None-Match inm, from its
\* arrival to its first pending await or to its response.
shardPost(v, r, b, inm) ==
  LET rec0 == [ShardIdleReq EXCEPT !.body = b]
      rec == [rec0 EXCEPT !.word = toLowerCase(trim(b.word.str))]
      cacheKey == shardCacheKey(rec.word, b)
      same == [req |-> req, out |-> <<>>]
      wordRequired == {[same EXCEPT !.out = response(r, rec0, 400, ErrorBody("Word is required."), NoHeader)]}
      invalidAccent == {[same EXCEPT !.out = response(r, rec0, 400, ErrorBody("Invalid accent selected"), NoHeader)]}
      escapes == {[same EXCEPT !.out = response(r, rec0, st, <<>>, NoHeader)] : st \in EscapeStatuses}
  IN IF wordIsFalsy(b.word) THEN wordRequired
     \* part_003 tests the accent before it trims the word, part_002 after
     ELSE IF v = "part_003" /\ accentRejected(b.accent) THEN invalidAccent
     ELSE IF b.word.kind # "string" THEN escapes
     ELSE IF accentRejected(b.accent) THEN invalidAccent
     ELSE IF cacheKey \in DOMAIN cache /\ etagMatches(inm, cache[cacheKey])
       THEN {[same EXCEPT !.out = response(r, rec, 304, <<>>, NoHeader)]}
     ELSE IF cacheKey \in DOMAIN cache
       THEN {[same EXCEPT !.out = response(r, rec, 200, <<cache[cacheKey].data>>,
                                           cache[cacheKey].etag)]}
     ELSE LET got == fetchWordData(v, rec.word, letterCache)
          IN IF got.kind = "done"
               THEN {[same EXCEPT !.req = [req EXCEPT ![r] = startSynthesis(rec, got.wordData)]]}
               ELSE {[same EXCEPT !.req = [req EXCEPT ![r] =
                        [rec EXCEPT !.pc = "awaitShard", !.letter = got.letter,
                                    !.upstream.shard = 1]]]}

noteShardResponse(o, iss) ==
  IF o # <<>> /\ o[1].route = "post" /\ o[1].status = 200
    THEN iss \cup {<<shardCacheKey(o[1].word, o[1].body), o[1].resEtag>>}
    ELSE iss

ShardReceive(r, b, inm) ==
  /\ r <= env.clients
  /\ b \in env.bodies
  /\ inm \in env.inms
  /\ req[r].pc = "idle"
  /\ \A q \in Requests : q < r => req[q].pc # "idle"
  /\ \E nxt \in shardPost(variant, r, b, inm) :
       /\ req' = nxt.req
       /\ out' = nxt.out
       /\ issued' = noteShardResponse(nxt.out, issued)
  /\ arrival' = <<[slot |-> r, body |-> b, inm |-> inm]>>
  /\ UNCHANGED <<cache, env, letterCache, phoneticStored, variant, call, ret>>
  /\ UNCHANGED indexVars

\* how the upstream fetch of a handler ended
settled(ok) == IF ok THEN "ok" ELSE "failed"

\* the upstream fetch of the shard file issued by handler r completes
ShardFetchComplete(r, ok) ==
  /\ req[r].pc = "awaitShard"
  /\ ok => req[r].letter \in Letters
  /\ LET done == fetchWordDataDone(req[r].word, req[r].letter, ok, letterCache)
     IN /\ letterCache' = done.letterCache
        /\ req' = [req EXCEPT ![r] = startSynthesis([req[r] EXCEPT !.fetch = settled(ok)],
                                                    done.wordData)]
  /\ arrival' = <<>>
  /\ out' = <<>>
  /\ UNCHANGED <<cache, issued, env, phoneticStored, variant, call, ret>>
  /\ UNCHANGED indexVars

\* the synthesis call of handler r completes: the handler runs to its response
ShardTtsComplete(r, ok) ==
  /\ req[r].pc = "awaitTts"
  /\ LET rec == req[r]
         cacheKey == shardCacheKey(rec.word, rec.body)
         responseData == shardResponseData(rec)
         responseETag == shardETagOf(variant, rec.word, rec.body)
     IN IF ok /\ ~cacheSetThrows(cache)
          THEN /\ cache' = mapSet(cache, cacheKey, [data |-> responseData, etag |-> responseETag])
               /\ out' = response(r, rec, 200, <<responseData>>, responseETag)
          ELSE /\ cache' = cache
               /\ out' = response(r, rec, 500, ProcessingError(rec.word), NoHeader)
  /\ issued' = noteShardResponse(out', issued)
  /\ req' = [req EXCEPT ![r] = ShardIdleReq]
  /\ arrival' = <<>>
  /\ UNCHANGED <<env, letterCache, phoneticStored, variant, call, ret>>
  /\ UNCHANGED indexVars

\* ------------------------------------------------------------------------
\* GET /data/:letter.json
\* ------------------------------------------------------------------------
\* JSON.stringify(data)
stringify(data) == <<"json", data>>

\* etag(body) of part_002
dataETag(data) == etag(stringify(data))

\* the weak validator that res.json and res.send of Express add to a body
\* sent without an ETag header (part_003)
expressETag(data) == etag(<<"W/">> \o stringify(data))

\* String(req.params.letter || "").toLowerCase()[0]
letterOf(param) == IF param = <<>> THEN "" ELSE toLowerCase(param)[1]

\* a response of the route: word holds the URL parameter
dataResponse(r, rec, status, body, tag) ==
  <<[route |-> "data", slot |-> r, body |-> rec.body, word |-> rec.word,
     status |-> status, resBody |-> body, resEtag |-> tag,
     upstream |-> rec.upstream, rec |-> rec]>>

\* the handler once it holds the data of the letter. part_002 compares the
\* validator of the client with etag(body) itself; part_003 sends the data
\* and Express answers 304 when the request is fresh
serveData(v, r, rec, data) ==
  LET tag == IF v = "part_002" THEN dataETag(data) ELSE expressETag(data)
  IN IF rec.inm # NoHeader /\ rec.inm = tag
       THEN dataResponse(r, rec, 304, <<>>, IF v = "part_002" THEN NoHeader ELSE tag)
       ELSE dataResponse(r, rec, 200, stringify(data), tag)

\* the handler of GET /data/<param>.json with If-None-Match inm, from its
\* arrival to its pending fetch or to its response
getData(v, r, param, inm) ==
  LET rec == [ShardIdleReq EXCEPT !.word = param, !.inm = inm,
                                  !.letter = letterOf(param)]
  IN IF rec.letter = "" \/ ~isLowerLetter(rec.letter)
       THEN [req |-> req, out |-> dataResponse(r, rec, 400, ErrorBody("Invalid letter"), NoHeader)]
     ELSE IF rec.letter \in DOMAIN letterCache
       THEN [req |-> req, out |-> serveData(v, r, rec, letterCache[rec.letter])]
     ELSE [req |-> [req EXCEPT ![r] = [rec EXCEPT !.pc = "awaitData",
                                                  !.upstream.shard = 1]],
           out |-> <<>>]

DataReceive(r, param, inm) ==
  /\ r <= env.clients
  /\ param \in env.params
  /\ inm \in env.dataInms
  /\ req[r].pc = "idle"
  /\ \A q \in Requests : q < r => req[q].pc # "idle"
  /\ req' = getData(variant, r, param, inm).req
  /\ out' = getData(variant, r, param, inm).out
  /\ arrival' = <<>>
  /\ UNCHANGED <<cache, issued, env, letterCache, phoneticStored, variant, call, ret>>
  /\ UNCHANGED indexVars

\* the upstream fetch issued by the GET handler r completes: on success the
\* data is stored and served, on failure the catch block answers 502
DataFetchComplete(r, ok) ==
  /\ req[r].pc = "awaitData"
  /\ ok => req[r].letter \in Letters
  /\ IF ok
       THEN /\ letterCache' = mapSet(letterCache, req[r].letter, shardFile(req[r].letter))
            /\ out' = serveData(variant, r, [req[r] EXCEPT !.fetch = settled(ok)],
                                shardFile(req[r].letter))
       ELSE /\ letterCache' = letterCache
            /\ out' = dataResponse(r, [req[r] EXCEPT !.fetch = settled(ok)], 502,
                                   ErrorBody("Upstream data unavailable"), NoHeader)
  /\ req' = [req EXCEPT ![r] = ShardIdleReq]
  /\ arrival' = <<>>
  /\ UNCHANGED <<cache, issued, env, phoneticStored, variant, call, ret>>
  /\ UNCHANGED indexVars

ShardExpireResponse(k) ==
  /\ "response" \in env.expiry
  /\ k \in DOMAIN cache
  /\ cache' = mapDel(cache, k)
  /\ arrival' = <<>>
  /\ out' = <<>>
  /\ UNCHANGED <<req, issued, env, letterCache, phoneticStored, variant, call, ret>>
  /\ UNCHANGED indexVars

ShardExpireLetter(letter) ==
  /\ "letter" \in env.expiry
  /\ letter \in DOMAIN letterCache
  /\ letterCache' = mapDel(letterCache, letter)
  /\ arrival' = <<>>
  /\ out' = <<>>
  /\ UNCHANGED <<cache, req, issued, env, phoneticStored, variant, call, ret>>
  /\ UNCHANGED indexVars

ShardBodies ==
  { ShardBody(WordStr(<<"a">>), "en-US", TRUE, "slow"),
    ShardBody(WordStr(<<"a">>), "en-US", TRUE, "fast"),
    ShardBody(WordStr(<<"A", "b">>), "en-GB", FALSE, UNDEFINED),
    ShardBody(WordStr(<<" ">>), "en-US", TRUE, UNDEFINED),
    ShardBody(WordStr(<<"1">>), "en-US", TRUE, UNDEFINED),
    ShardBody(WordStr(<<>>), "en-US", TRUE, UNDEFINED),
    ShardBody(WordNumber, "en-US", TRUE, UNDEFINED),
    ShardBody(WordNumber, "zz-ZZ", TRUE, UNDEFINED),
    ShardBody(WordStr(<<"a">>), "zz-ZZ", TRUE, UNDEFINED) }
  \cup {ShardBody(WordStr(<<"a">>), a, TRUE, UNDEFINED) : a \in Accents}
  \cup {ShardBody(WordStr(<<"a">>), "en-GB", m, sp) :
          m \in BOOLEAN,
          sp \in {UNDEFINED, "slow", "normal", "fast", "turbo", "constructor"}}

ShardInmValues ==
  {NoHeader} \cup
  {shardETagOf(v, <<"a">>, ShardBody(WordStr(<<"a">>), "en-US", TRUE, "slow")) : v \in Variants}

\* the URL parameters of GET /data/:letter.json
LetterParams == {<<"a">>, <<"b">>, <<"A">>, <<"a", "b">>, <<"1">>}

\* validators a client can send to GET /data/:letter.json
DataInmValues ==
  {NoHeader, dataETag(shardFile("a")), expressETag(shardFile("a"))}

ShardEnvironment(clients, bodies, inms, expiry) ==
  [clients |-> clients, bodies |-> bodies, inms |-> inms, expiry |-> expiry,
   params |-> {}, dataInms |-> {}]

ProxyEnvironment(clients, bodies, params, dataInms, expiry) ==
  [clients |-> clients, bodies |-> bodies, inms |-> {NoHeader}, expiry |-> expiry,
   params |-> params, dataInms |-> dataInms]

ShardEnvironments ==
  { \* overlapping requests for words of one letter
    ShardEnvironment(MaxReq,
                     {ShardBody(WordStr(<<"a">>), "en-US", TRUE, "slow"),
                      ShardBody(WordStr(<<"A", "b">>), "en-GB", FALSE, UNDEFINED)},
                     {NoHeader}, {"letter"}),
    \* conditional retrieval of one word at two speeds
    ShardEnvironment(2,
                     {ShardBody(WordStr(<<"a">>), "en-US", TRUE, "slow"),
                      ShardBody(WordStr(<<"a">>), "en-US", TRUE, "fast")},
                     ShardInmValues, {"response"}),
    \* one word in every supported accent
    ShardEnvironment(2, {ShardBody(WordStr(<<"a">>), a, TRUE, UNDEFINED) : a \in Accents},
                     {NoHeader}, {}),
    \* every speed of the table, a speed outside it and a speed that names
    \* an inherited member, in both genders
    ShardEnvironment(1, {ShardBody(WordStr(<<"a">>), "en-GB", m, sp) :
                           m \in BOOLEAN,
                           sp \in {UNDEFINED, "slow", "normal", "fast", "turbo", "constructor"}},
                     {NoHeader}, {}),
    \* the shard files served to the clients and used by the handlers
    ProxyEnvironment(2, {ShardBody(WordStr(<<"a">>), "en-US", TRUE, UNDEFINED)},
                     LetterParams, DataInmValues, {"letter"}),
    \* validation, and words that do not start with a letter
    ShardEnvironment(2,
                     { ShardBody(WordStr(<<"a">>), "en-US", TRUE, "slow"),
                       ShardBody(WordStr(<<" ">>), "en-US", TRUE, UNDEFINED),
                       ShardBody(WordStr(<<"1">>), "en-US", TRUE, UNDEFINED),
                       ShardBody(WordStr(<<>>), "en-US", TRUE, UNDEFINED),
                       ShardBody(WordNumber, "en-US", TRUE, UNDEFINED),
                       ShardBody(WordNumber, "zz-ZZ", TRUE, UNDEFINED),
                       ShardBody(WordStr(<<"a">>), "zz-ZZ", TRUE, UNDEFINED) },
                     {NoHeader}, {}) }

InitShard ==
  /\ phoneticTranscriptions = 0
  /\ phoneticLoadPromise = 0
  /\ loads = <<>>
  /\ cache = EmptyMap
  /\ phoneticCache = EmptyMap
  /\ req = [r \in Requests |-> ShardIdleReq]
  /\ arrival = <<>>
  /\ out = <<>>
  /\ issued = {}
  /\ stored = EmptyMap
  /\ phoneticStored = {}
  /\ delivered = {}
  /\ env \in ShardEnvironments
  /\ letterCache = EmptyMap
  /\ variant \in Variants
  /\ call = <<>>
  /\ ret = <<>>

NextShard ==
  \/ \E r \in Requests, b \in ShardBodies, inm \in ShardInmValues : ShardReceive(r, b, inm)
  \/ \E r \in Requests, ok \in BOOLEAN : ShardFetchComplete(r, ok)
  \/ \E r \in Requests, ok \in BOOLEAN : ShardTtsComplete(r, ok)
  \/ \E r \in Requests, param \in LetterParams, inm \in DataInmValues :
       DataReceive(r, param, inm)
  \/ \E r \in Requests, ok \in BOOLEAN : DataFetchComplete(r, ok)
  \/ \E k \in DOMAIN cache : ShardExpireResponse(k)
  \/ \E letter \in DOMAIN letterCache : ShardExpireLetter(letter)

SpecShard == InitShard /\ [][NextShard]_vars

\* ------------------------------------------------------------------------
\* The helper functions, called on their own
\* ------------------------------------------------------------------------
\* the senses an entry of the definition provider is made of
SenseChoices ==
  { Sense("noun", <<Def("n1", "xn1"), Def("n2", NULL)>>),
    Sense("adjective", <<Def("j1", NULL), Def("j2", "xj2")>>),
    Sense("adjective", <<Def("k1", "xk1")>>),
    Sense("adjective", <<>>),
    Sense("verb", <<Def("v1", "xv1"), Def("v2", "xv2")>>) }

SenseLists == UNION {[1..n -> SenseChoices] : n \in 0..MaxSenses}

\* getCountryCode of part_000 and part_001: mapping[accent] || null
getCountryCode(accent) ==
  CASE accent = "en-US" -> "US"
    [] accent = "en-GB" -> "UK"
    [] accent = "en-AU" -> "UK"
    [] accent = "en-IN" -> "US"
    [] OTHER -> NULL

\* phoneticCache[word]?.[countryCode] in part_000 and part_001: undefined when
\* the word or the region is absent, a string (given by its comma-separated
\* alternatives) or a list of strings
PhoneticString(alts) == [kind |-> "string", alts |-> alts]
PhoneticList(alts) == [kind |-> "list", alts |-> alts]
PhoneticAbsent == [kind |-> "undefined", alts |-> <<>>]
PhoneticNull == [kind |-> "null", alts |-> <<>>]

PhoneticFields ==
  { PhoneticAbsent,
    PhoneticString(<<"p1">>),
    PhoneticString(<<"p1", "p2">>),
    PhoneticList(<<"p1">>),
    PhoneticList(<<"p1", "p2">>) }

\* getPhoneticFromJson of part_000 once the file is loaded: the first element
\* of a list, else the string as it is
getPhoneticFromJson_part_000(field, accent) ==
  IF getCountryCode(accent) = NULL THEN PhoneticNull
  ELSE IF field.kind = "list" THEN PhoneticString(<<field.alts[1]>>)
  ELSE IF field.kind = "undefined" THEN PhoneticNull
  ELSE field

\* getPhoneticFromJson of part_001 once the file is loaded: the statement
\* `phonetics = phonetics.split(",")[0].trim()` assigns to a const (or calls
\* split on undefined or on a list), the TypeError is caught, null is returned
getPhoneticFromJson_part_001(field, accent) == PhoneticNull

getPhoneticFromJson(file, field, accent) ==
  IF file = "part_000" THEN getPhoneticFromJson_part_000(field, accent)
  ELSE getPhoneticFromJson_part_001(field, accent)

\* getWordDetails(word) of part_001 (lines 117-187): on an entry of the
\* provider it evaluates getPhoneticFromJson(word, accent) with no accent in
\* scope (line 133), which throws inside the try block, so that the catch
\* block answers for every entry
getWordDetails_part_001(entry) ==
  IF entry.kind = "empty"
    THEN [phonetic |-> NULL, meanings |-> <<"No details available">>,
          examples |-> <<>>]
    ELSE [phonetic |-> NULL,
          meanings |-> <<"Definition service unavailable. This might be a name. Try another word.">>,
          examples |-> <<>>]

getWordDetailsOf(file, entry) ==
  IF file = "index" THEN getWordDetails(entry)
  ELSE getWordDetails_part_001(entry)

HelperWords == {<<"a">>, <<"a", "b">>}

HelperCalls ==
  {[fn |-> "getWordDetails", file |-> f, meanings |-> ms] :
          f \in {"index", "part_001"}, ms \in SenseLists}
  \cup {[fn |-> "getPhoneticFromJSON", d |-> d, word |-> w, accent |-> a] :
          d \in Datasets, w \in HelperWords, a \in Accents}
  \cup {[fn |-> "getPhoneticFromJson", file |-> f, field |-> x, accent |-> a] :
          f \in {"part_000", "part_001"}, x \in PhoneticFields, a \in Accents}

InitHelpers ==
  /\ phoneticTranscriptions = 0
  /\ phoneticLoadPromise = 0
  /\ loads = <<>>
  /\ cache = EmptyMap
  /\ phoneticCache = EmptyMap
  /\ req = [r \in Requests |-> IdleReq]
  /\ arrival = <<>>
  /\ out = <<>>
  /\ issued = {}
  /\ stored = EmptyMap
  /\ phoneticStored = {}
  /\ delivered = {}
  /\ env = <<>>
  /\ letterCache = EmptyMap
  /\ variant = "index"
  /\ call \in HelperCalls
  /\ ret = <<>>

Returns(value) ==
  /\ ret = <<>>
  /\ ret' = <<value>>
  /\ UNCHANGED <<phoneticTranscriptions, delivered, phoneticLoadPromise, loads, cache,
                 phoneticCache, req, arrival, out, issued, stored,
                 phoneticStored, env, letterCache, variant, call>>

\* getWordDetails on an entry of the provider
CallGetWordDetails ==
  /\ call.fn = "getWordDetails"
  /\ Returns(getWordDetailsOf(call.file, ProviderEntry("api-ph", call.meanings)))

\* getPhoneticFromJSON of src/index.js on a loaded table and an empty cache
CallGetPhoneticFromJSON ==
  /\ call.fn = "getPhoneticFromJSON"
  /\ Returns(getPhoneticFromJSON(call.word, call.accent, call.d, EmptyMap).result)

\* getPhoneticFromJson of part_000 and part_001
CallGetPhoneticFromJson ==
  /\ call.fn = "getPhoneticFromJson"
  /\ Returns(getPhoneticFromJson(call.file, call.field, call.accent))

NextHelpers ==
  \/ CallGetWordDetails
  \/ CallGetPhoneticFromJSON
  \/ CallGetPhoneticFromJson

SpecHelpers == InitHelpers /\ [][NextHelpers]_vars

\* ------------------------------------------------------------------------
\* Properties of the bulk dataset load (src/index.js)
\* ------------------------------------------------------------------------
InProgress == {r \in Requests : req[r].pc # "idle"}

PendingLoads == {l \in 1..Len(loads) : loads[l].st = "pending"}

\* every load so far was started by a POST handler and none has completed
ColdStart ==
  /\ phoneticTranscriptions = 0
  /\ \A l \in 1..Len(loads) : loads[l].st = "pending" /\ loads[l].by = "post"

RECURSIVE fetchesIssued(_)
fetchesIssued(rs) ==
  IF rs = {} THEN 0
  ELSE LET r == CHOOSE x \in rs : TRUE
       IN req[r].upstream.fetch + fetchesIssued(rs \ {r})

\* C1: while the dataset is not loaded and no load has completed, the POST
\* requests that have arrived have issued exactly one upstream dataset fetch
\* between them, and every one of them waits on that one load.
C1_SingleFlight ==
  (ColdStart /\ InProgress # {}) =>
     /\ Len(loads) = 1
     /\ fetchesIssued(InProgress) = 1
     /\ \A r \in InProgress : req[r].pc = "awaitLoad" /\ req[r].load = 1

\* two cold-start requests wait on the same load
C1_Witness ==
  /\ ColdStart
  /\ Cardinality(InProgress) = MaxReq
  /\ MaxReq >= 2
  /\ \A r \in InProgress : req[r].pc = "awaitLoad" /\ req[r].load = 1

\* C2: at most one upstream fetch of the bulk dataset is in flight at a
\* time, whatever the interleaving of requests, reloads, completions and
\* timers.
C2_AtMostOneInFlight == Cardinality(PendingLoads) <= 1

\* C4: a POST request that arrives after a load has failed, when no load is
\* pending, and that finds the dataset unloaded issues a new upstream
\* dataset fetch.
C4_RetryAfterFailure ==
  (/\ arrival # <<>>
   /\ req[arrival[1].slot].pc # "idle"
   /\ phoneticTranscriptions = 0
   /\ \E l \in 1..Len(loads) : loads[l].st = "false"
   /\ \A l \in 1..Len(loads) :
        loads[l].st = "pending" => l = req[arrival[1].slot].load)
  => req[arrival[1].slot].upstream.fetch = 1

\* ------------------------------------------------------------------------
\* Properties of the response cache and of validation (src/index.js)
\* ------------------------------------------------------------------------
\* a body the interface description calls valid: a string word that is not
\* empty once trimmed, and an accent that is a key of the voice table
ValidBody(b) ==
  /\ b.word.kind = "string"
  /\ trim(b.word.str) # <<>>
  /\ b.accent \in DOMAIN voiceMap

\* the cache key of the request received by the last step
ArrivalKey ==
  cacheKeyOf(toLowerCase(trim(arrival[1].body.word.str)), arrival[1].body)

ValidArrival == arrival # <<>> /\ ValidBody(arrival[1].body)

AnsweredFromCache(status, body, tag) ==
  /\ out # <<>>
  /\ out[1].status = status
  /\ out[1].resBody = body
  /\ out[1].resEtag = tag
  /\ out[1].upstream = NoUpstream

\* C5 (as stated): a valid request whose key has an unexpired entry stored
\* by an earlier 200 returns the stored document and ETag with no upstream
\* call.
C5_Original ==
  (ValidArrival /\ ArrivalKey \in DOMAIN stored) =>
     AnsweredFromCache(200, <<stored[ArrivalKey].data>>, stored[ArrivalKey].etag)

\* C5 (amended): a valid request whose key has an unexpired entry stored by
\* an earlier 200 makes no upstream call; it returns the stored document
\* and ETag with 200 unless its If-None-Match equals the stored ETag, and
\* then it is answered 304 with an empty body.
C5_CachedReplay ==
  (ValidArrival /\ ArrivalKey \in DOMAIN stored) =>
     IF arrival[1].inm = stored[ArrivalKey].etag
       THEN AnsweredFromCache(304, <<>>, NoHeader)
       ELSE AnsweredFromCache(200, <<stored[ArrivalKey].data>>,
                              stored[ArrivalKey].etag)

\* a repeated request is served the stored document
C5_Witness ==
  /\ ValidArrival
  /\ ArrivalKey \in DOMAIN stored
  /\ arrival[1].body.word.str # <<"a">>
  /\ AnsweredFromCache(200, <<stored[ArrivalKey].data>>, stored[ArrivalKey].etag)

\* C6 (as stated): a request whose If-None-Match equals an ETag issued
\* earlier for its cache key is answered 304 with an empty body and no
\* upstream call.
C6_Original ==
  (/\ ValidArrival
   /\ arrival[1].inm # NoHeader
   /\ <<ArrivalKey, arrival[1].inm>> \in issued)
  => AnsweredFromCache(304, <<>>, NoHeader)

\* C6 (amended): a request whose If-None-Match equals an ETag issued
\* earlier for its cache key is answered 304 with an empty body and no
\* upstream call, as long as the response cache still holds the entry of
\* that key.
C6_NotModified ==
  (/\ ValidArrival
   /\ arrival[1].inm # NoHeader
   /\ <<ArrivalKey, arrival[1].inm>> \in issued
   /\ ArrivalKey \in DOMAIN cache)
  => AnsweredFromCache(304, <<>>, NoHeader)

\* a conditional request is answered 304
C6_Witness ==
  /\ ValidArrival
  /\ arrival[1].inm # NoHeader
  /\ <<ArrivalKey, arrival[1].inm>> \in issued
  /\ ArrivalKey \in DOMAIN cache
  /\ AnsweredFromCache(304, <<>>, NoHeader)

\* C8: a request with a missing or empty word, or with an accent that is
\* not a key of the voice table, is answered 400 in the step that receives
\* it, without any upstream call.
C8_RejectedImmediately ==
  (/\ arrival # <<>>
   /\ \/ wordIsFalsy(arrival[1].body.word)
      \/ arrival[1].body.accent \notin DOMAIN voiceMap)
  => /\ out # <<>>
     /\ out[1].status = 400
     /\ out[1].upstream = NoUpstream

\* C9: a request whose word consists only of whitespace gets 400, and no
\* handler goes on to the cache lookup or to the synthesis call with an
\* empty word.
C9_NoEmptyWord ==
  /\ (/\ arrival # <<>>
      /\ arrival[1].body.word.kind = "string"
      /\ trim(arrival[1].body.word.str) = <<>>)
     => (out # <<>> /\ out[1].status = 400)
  /\ \A r \in InProgress : req[r].word # <<>>

\* C10: every request that ends was sent a response with status 200, 304,
\* 400 or 500.
C10_AlwaysAnswered ==
  (out # <<>> /\ out[1].route = "post") => out[1].status \in {200, 304, 400, 500}

\* ------------------------------------------------------------------------
\* Properties of the letter-shard handlers
\* ------------------------------------------------------------------------
ShardFetchesInFlight(letter) ==
  {r \in Requests : req[r].pc = "awaitShard" /\ req[r].letter = letter}

\* C3: at most one upstream fetch of a letter's shard file is in flight at
\* a time: requests for words of the same first letter share one fetch.
C3_OneShardFetch ==
  \A letter \in Letters : Cardinality(ShardFetchesInFlight(letter)) <= 1

\* C7: two requests with different cache keys never receive the same ETag,
\* and a request answered 304 presented an ETag that was issued for no
\* cache key other than its own.
C7_DistinctETags ==
  /\ \A p \in issued, q \in issued : p[1] # q[1] => p[2] # q[2]
  /\ (arrival # <<>> /\ out # <<>> /\ out[1].status = 304) =>
        \A p \in issued :
           p[2] = arrival[1].inm => p[1] = shardCacheKey(out[1].word, out[1].body)

\* ------------------------------------------------------------------------
\* Properties of upstream failures (src/index.js)
\* ------------------------------------------------------------------------
SynthesisFailed(o) == o # <<>> /\ o[1].route = "post" /\ o[1].rec.tts = "failed"

\* C11: the step in which the synthesis call of a request fails answers 500
\* with the error, suggestion and word, and leaves the response cache as it
\* was; a valid request that finds no entry for its key is not answered
\* from the cache but runs the resolution.
C11_SynthesisFailure ==
  [][ /\ SynthesisFailed(out') =>
           /\ out'[1].status = 500
           /\ out'[1].resBody = ProcessingError(out'[1].word)
           /\ out'[1].resEtag = NoHeader
           /\ cache' = cache
      /\ (ValidArrival' /\ ArrivalKey' \notin DOMAIN cache) =>
           /\ out' = <<>>
           /\ req'[arrival'[1].slot].pc \in {"awaitLoad", "awaitAll"} ]_vars

\* a synthesis failure has been answered and the key has no entry
C11_Witness ==
  /\ SynthesisFailed(out)
  /\ out[1].status = 500
  /\ ValidBody(out[1].body)
  /\ cacheKeyOf(out[1].word, out[1].body) \notin DOMAIN cache

\* what getWordDetails returns when the provider call fails or is empty
DegradedDetails == {getWordDetails(ProviderError), getWordDetails(ProviderEmpty)}

\* C12: getWordDetails turns a provider failure or an empty payload into a
\* value with phonetic null, no examples and one diagnostic meaning, and a
\* request that got such a value and whose synthesis succeeded ends with
\* 200.
C12_ProviderFailureDegrades ==
  /\ \A d \in DegradedDetails :
        d.phonetic = NULL /\ d.examples = <<>> /\ Len(d.meanings) = 1
  /\ (/\ out # <<>>
      /\ out[1].route = "post"
      /\ out[1].rec.tts = "ok"
      /\ out[1].rec.wordDetails # <<>>
      /\ out[1].rec.wordDetails[1] \in DegradedDetails)
     => out[1].status = 200

\* ------------------------------------------------------------------------
\* Properties of the phonetic field (src/index.js)
\* ------------------------------------------------------------------------
Placeholder == "Phonetic transcription not available."

\* a 200 response assembled by the handler that sent it
Assembled(o) ==
  o # <<>> /\ o[1].route = "post" /\ o[1].status = 200 /\ o[1].upstream.tts = 1

\* C13: the phonetic of an assembled response is the one the bulk dataset
\* yielded for the word and accent when it yielded one, else the one of the
\* definition provider when it has one, else the placeholder.
C13_PhoneticFallback ==
  Assembled(out) =>
    LET fromDataset == out[1].rec.phoneticData.phonetic
        fromProvider == out[1].rec.wordDetails[1].phonetic
    IN out[1].resBody[1].phonetic =
         IF fromDataset # NULL THEN fromDataset
         ELSE IF fromProvider # NULL THEN fromProvider
         ELSE Placeholder

\* both sources have a phonetic and the dataset's one is returned
C13_Witness ==
  /\ Assembled(out)
  /\ out[1].rec.phoneticData.phonetic # NULL
  /\ out[1].rec.wordDetails[1].phonetic # NULL
  /\ out[1].rec.wordDetails[1].phonetic # out[1].rec.phoneticData.phonetic
  /\ out[1].resBody[1].phonetic = out[1].rec.phoneticData.phonetic

\* ------------------------------------------------------------------------
\* Properties of the helper functions
\* ------------------------------------------------------------------------
Returned(fn) == call # <<>> /\ call.fn = fn /\ ret # <<>>

\* C14: for an accent mapped to the UK table and a word of the dataset,
\* getPhoneticFromJSON returns the UK form of the entry when it has one,
\* else its US form, and null only when the entry has neither.
C14_UkFallsBackToUs ==
  (/\ Returned("getPhoneticFromJSON")
   /\ accentToPhoneticMap[call.accent] = "UK"
   /\ call.word \in DOMAIN rawData(call.d))
  => LET entry == rawData(call.d)[call.word]
     IN ret[1].phonetic = IF orNull(entry.uk_ipa) # NULL THEN entry.uk_ipa
                          ELSE orNull(entry.us_ipa)

\* C16: when the word and the region are present, getPhoneticFromJson
\* returns the first alternative of the phonetic field, whether the field
\* is a comma-separated string or a list; it returns null only when the
\* word or the region is absent.
C16_FirstAlternative ==
  (Returned("getPhoneticFromJson") /\ getCountryCode(call.accent) # NULL)
  => ret[1] = IF call.field.kind = "undefined" THEN PhoneticNull
              ELSE PhoneticString(<<call.field.alts[1]>>)

\* C15: whichever source supplies the phonetic, the regional form of a
\* response is the one of the fixed mapping en-US to US, en-GB to UK, en-AU
\* to US, en-IN to UK: a response assembled from a letter shard carries the
\* form the bulk table of src/index.js selects for its accent.
C15_FixedRegion ==
  (/\ Assembled(out)
   /\ variant \in Variants
   /\ out[1].rec.wordData # <<>>
   /\ out[1].body.accent \in DOMAIN accentToPhoneticMap)
  => out[1].resBody[1].phonetic =
       IF accentToPhoneticMap[out[1].body.accent] = "UK"
         THEN out[1].rec.wordData[1].uk_ipa
         ELSE out[1].rec.wordData[1].us_ipa

\* ------------------------------------------------------------------------
\* Properties of the phonetic cache (src/index.js)
\* ------------------------------------------------------------------------
\* the handler of the request received by the last step has looked up its
\* phonetic data in that step
LookedUp ==
  /\ arrival # <<>>
  /\ req[arrival[1].slot].pc = "awaitAll"

\* C17: a phonetic lookup made while a dataset is loaded returns the value
\* of the dataset that is loaded at that moment, so after a successful
\* reload every lookup returns the value of the newly loaded dataset.
C17_ReloadRefreshes ==
  (LookedUp /\ phoneticTranscriptions # 0) =>
     LET rec == req[arrival[1].slot]
     IN rec.phoneticData =
          lookupPhonetic(processed(phoneticTranscriptions), rec.word, rec.body.accent)

\* handler r makes its phonetic lookup in this step
LookupStep(r) ==
  /\ req[r].pc # "awaitAll"
  /\ req'[r].pc = "awaitAll"

\* the pair that handler r looks up
PhoneticKey(rec) == <<toLowerCase(rec.word), rec.body.accent>>

\* C18 (as stated): once the dataset is loaded, a lookup of a pair returns
\* every result that was stored for that pair before, however long ago.
C18_Original ==
  (LookedUp /\ phoneticTranscriptions # 0) =>
     LET rec == req[arrival[1].slot]
     IN \A e \in phoneticStored :
          e[1] = PhoneticKey(rec) => rec.phoneticData = e[2]

\* C18 (amended): a lookup of a pair whose entry is in the phonetic cache
\* returns that entry and leaves it as it is, and a lookup made on a loaded
\* dataset leaves the pair in the phonetic cache with the result it
\* returned, a not-found result included.
C18_StoredAndReturned ==
  [][\A r \in Requests : LookupStep(r) =>
       LET k == PhoneticKey(req'[r])
       IN /\ k \in DOMAIN phoneticCache =>
               /\ req'[r].phoneticData = phoneticCache[k]
               /\ k \in DOMAIN phoneticCache'
               /\ phoneticCache'[k] = phoneticCache[k]
          /\ phoneticTranscriptions' # 0 =>
               /\ k \in DOMAIN phoneticCache'
               /\ phoneticCache'[k] = req'[r].phoneticData]_vars

\* the result stored by the lookup of one handler is returned to a later
\* handler that looks up the same pair
C18_Witness ==
  /\ LookedUp
  /\ phoneticTranscriptions # 0
  /\ LET rec == req[arrival[1].slot]
     IN /\ PhoneticKey(rec) \in DOMAIN phoneticCache
        /\ phoneticCache[PhoneticKey(rec)] = rec.phoneticData
        /\ \E q \in Requests :
             /\ q # arrival[1].slot
             /\ req[q].pc = "awaitAll"
             /\ PhoneticKey(req[q]) = PhoneticKey(rec)

\* ------------------------------------------------------------------------
\* Properties of getWordDetails
\* ------------------------------------------------------------------------
isAdjective(m) == m.partOfSpeech = "adjective"
isOther(m) == m.partOfSpeech # "adjective"
hasDefinition(m) == isAdjective(m) /\ Len(m.definitions) > 0

\* C19: when the sense list of the provider holds an adjective sense with at
\* least one definition, the first meaning getWordDetails returns is the
\* first definition of the first such sense, wherever it stands in the list.
C19_AdjectivePriority ==
  (/\ Returned("getWordDetails")
   /\ SelectSeq(call.meanings, hasDefinition) # <<>>)
  => ret[1].meanings[1] =
       SelectSeq(call.meanings, hasDefinition)[1].definitions[1].definition

\* the adjective senses followed by the other senses, each group in the
\* order of the provider
adjectivesFirst(ms) == SelectSeq(ms, isAdjective) \o SelectSeq(ms, isOther)

firstUpTo(n, seq) == SubSeq(seq, 1, IF Len(seq) < n THEN Len(seq) ELSE n)

carriesExample(d) == d.example # NULL

\* C20: getWordDetails of src/index.js returns at most 3 meanings and at most
\* 3 examples: the meanings are the first up-to-3 definitions of the
\* adjective senses followed by the other senses in their original order
\* (the placeholder when there is no definition at all), and the examples
\* are the first up-to-3 examples of the same list, whether or not the
\* meanings are complete.
C20_SelectedInOrder ==
  (Returned("getWordDetails") /\ call.file = "index") =>
     LET slots == flattenDefs(adjectivesFirst(call.meanings))
         withExample == SelectSeq(slots, carriesExample)
     IN /\ Len(ret[1].meanings) <= 3
        /\ Len(ret[1].examples) <= 3
        /\ ret[1].meanings =
             IF slots = <<>> THEN <<"No details available">>
             ELSE [i \in 1..Len(firstUpTo(3, slots)) |-> slots[i].definition]
        /\ ret[1].examples =
             [i \in 1..Len(firstUpTo(3, withExample)) |->
                [text |-> withExample[i].example,
                 partOfSpeech |-> withExample[i].partOfSpeech]]

\* ------------------------------------------------------------------------
\* Properties of the response document
\* ------------------------------------------------------------------------
\* the documents sent with status 200 by the last step or held by the
\* response cache
Documents ==
  {cache[k].data : k \in DOMAIN cache}
    \cup (IF out # <<>> /\ out[1].route = "post" /\ out[1].status = 200
           THEN {out[1].resBody[1]} ELSE {})

\* C21: every document sent with status 200 or held by the response cache
\* has at most 3 meanings and at most 3 examples.
C21_AtMostThree ==
  \A doc \in Documents : Len(doc.meanings) <= 3 /\ Len(doc.examples) <= 3

\* the last step sent a document with status 200
Sent200 == out # <<>> /\ out[1].route = "post" /\ out[1].status = 200

\* C22: the phonetic field of every 200 response is a non-empty string, the
\* placeholder text when no source yields a transcription.
C22_PhoneticIsText ==
  Sent200 => out[1].resBody[1].phonetic \notin {NULL, UNDEFINED, ""}

\* ------------------------------------------------------------------------
\* Properties of the fan-out
\* ------------------------------------------------------------------------
\* the positions in which a handler waits for a call of the data resolution:
\* the dataset load, the shard fetch, the definition provider
WaitsForData == {"awaitLoad", "awaitShard", "awaitAll"}

\* C23: the synthesis call is not held back by the data resolution: a handler
\* that waits for the dataset load, the shard fetch or the definition
\* provider has already issued its synthesis call.
C23_SynthesisNotDelayed ==
  \A r \in Requests : req[r].pc \in WaitsForData => req[r].upstream.tts = 1

\* handler r leaves its Promise.all in this step and answers
Merged(r) ==
  /\ req[r].pc = "awaitAll"
  /\ req'[r].pc = "idle"
  /\ out' # <<>>
  /\ out'[1].slot = r

\* the answer and the cache that the results held by a handler give,
\* whichever of the two calls completed first
mergeOf(r, rec, c) ==
  IF rec.tts = "failed" THEN catchBlock(r, [rec EXCEPT !.first = "none"], c)
  ELSE finish(r, [rec EXCEPT !.first = "none"], c)

SetOnFullCache(r) ==
  /\ Merged(r)
  /\ out'[1].rec.tts = "ok"
  /\ Cardinality(DOMAIN cache) >= MaxKeys
  /\ cacheKeyOf(out'[1].word, out'[1].body) \notin DOMAIN cache

\* C25: a set on a full response cache evicts one earlier entry, keeps the
\* others, stores the new entry, and the request ends with 200.
C25_EvictsWhenFull ==
  [][\A r \in Requests : SetOnFullCache(r) =>
       LET key == cacheKeyOf(out'[1].word, out'[1].body)
       IN /\ out'[1].status = 200
          /\ key \in DOMAIN cache'
          /\ Cardinality(DOMAIN cache \ DOMAIN cache') = 1
          /\ \A k \in DOMAIN cache \cap DOMAIN cache' : cache'[k] = cache[k]]_vars

\* the handlers whose synthesis call for cache key k is in flight
Resolving(k) ==
  {r \in Requests : /\ req[r].pc = "awaitAll"
                    /\ req[r].tts = "pending"
                    /\ cacheKeyOf(req[r].word, req[r].body) = k}

\* at most one synthesis call per cache key is in flight
OneSynthesisPerKey ==
  \A r \in Requests :
     Cardinality(Resolving(cacheKeyOf(req[r].word, req[r].body))) <= 1

\* C26: the document of a key is created once: at most one synthesis call
\* per cache key is in flight, and a write to the response cache never
\* replaces the entry of a key that is stored.
C26_CreatedOnce ==
  [][/\ OneSynthesisPerKey'
     /\ \A r \in Requests :
          (Merged(r) /\ out'[1].status = 200) =>
            cacheKeyOf(out'[1].word, out'[1].body) \notin DOMAIN cache]_vars

\* ------------------------------------------------------------------------
\* Properties of GET /data/:letter.json
\* ------------------------------------------------------------------------
\* the last step answered a request of the route
DataAnswered == out # <<>> /\ out[1].route = "data"

\* the URL parameter is one letter of a-z, in either case
isLetterParam(param) == Len(param) = 1 /\ isLowerLetter(toLowerCaseChar(param[1]))

\* C27: GET /data/:letter.json of part_002 answers 400 with no upstream
\* fetch when the parameter is not a letter; else 502 when its fetch of the
\* shard failed, 304 when If-None-Match equals the ETag of the shard body,
\* and otherwise 200 with the shard JSON and that ETag.
C27_DataOutcomes ==
  (variant = "part_002" /\ DataAnswered) =>
     LET o == out[1]
     IN IF ~isLetterParam(o.word)
          THEN o.status = 400 /\ o.upstream.shard = 0
          ELSE \/ o.status = 502 /\ o.upstream.shard = 1
               \/ /\ o.rec.letter \in DOMAIN letterCache
                  /\ LET data == letterCache[o.rec.letter]
                     IN IF o.rec.inm = dataETag(data)
                          THEN o.status = 304 /\ o.resBody = <<>>
                          ELSE /\ o.status = 200
                               /\ o.resBody = stringify(data)
                               /\ o.resEtag = dataETag(data)

\* ------------------------------------------------------------------------
\* Properties of the shard cache
\* ------------------------------------------------------------------------
\* the upstream fetch of handler r fails in this step
FetchFails(r) ==
  /\ req[r].pc \in {"awaitShard", "awaitData"}
  /\ \/ req'[r].fetch = "failed"
     \/ out' # <<>> /\ out'[1].slot = r /\ out'[1].rec.fetch = "failed"

\* handler r receives a request in this step and goes on without a fetch,
\* to its synthesis call or to the answer of GET /data/:letter.json
GoesOnWithoutFetch(r) ==
  /\ req[r].pc = "idle"
  /\ \/ req'[r].pc = "awaitTts"
     \/ out' # <<>> /\ out'[1].slot = r /\ out'[1].route = "data" /\ out'[1].status # 400

\* the letter whose shard the request of handler r needs, "" when none
neededLetter(v, rec) ==
  IF rec.pc = "idle" THEN rec.letter
  ELSE IF rec.word = <<>> THEN ""
  ELSE IF v = "part_003" /\ ~isLowerLetter(rec.word[1]) THEN ""
  ELSE rec.word[1]

\* C28: a failed fetch of a letter shard leaves the shard cache as it was,
\* and a request that needs a letter goes on without an upstream fetch only
\* when the shard cache holds that letter: after a failure the next request
\* for the letter fetches again.
C28_FailureStoresNothing ==
  [][\A r \in Requests :
       /\ FetchFails(r) => letterCache' = letterCache
       /\ GoesOnWithoutFetch(r) =>
            LET rec == IF req'[r].pc = "awaitTts" THEN req'[r] ELSE out'[1].rec
                letter == neededLetter(variant, rec)
            IN letter = "" \/ letter \in DOMAIN letterCache]_vars

\* a request arrives after the fetch of another handler for the same letter
\* has failed, and issues a new fetch
C28_Witness ==
  /\ arrival # <<>>
  /\ req[arrival[1].slot].pc = "awaitShard"
  /\ req[arrival[1].slot].letter \notin DOMAIN letterCache
  /\ \E q \in Requests :
       /\ req[q].fetch = "failed"
       /\ req[q].letter = req[arrival[1].slot].letter

\* ------------------------------------------------------------------------
\* Liveness of the bulk dataset load (src/index.js)
\* ------------------------------------------------------------------------
\* C29: once a load has been started, phoneticLoadPromise is eventually
\* cleared, whether the load succeeds or fails.
C29_MarkerCleared == (phoneticLoadPromise # 0) ~> (phoneticLoadPromise = 0)

\* the marker has been cleared after a load that succeeded and after a load
\* that failed
C29_Witness ==
  /\ phoneticLoadPromise = 0
  /\ \E l \in 1..Len(loads) : loads[l].st = "true" /\ loads[l].timer = "fired"
  /\ \E l \in 1..Len(loads) : loads[l].st = "false" /\ loads[l].timer = "fired"

\* the handlers that wait for load l
Joined(l) == {r \in Requests : req[r].pc = "awaitLoad" /\ req[r].load = l}

\* the outcome of a settled load is handed to all its callers in the step
\* that settles it: no handler still waits for it, and the handler of
\* GET /reload-phonetics that started it answers 200 for true, 500 for false
SettlesForAll(l) ==
  (loads[l].st = "pending" /\ loads'[l].st # "pending") =>
     /\ \A r \in Joined(l) : req'[r].pc = "awaitAll" /\ req'[r].load = l
     /\ loads[l].by = "reload" =>
          /\ out' # <<>>
          /\ out'[1].route = "reload"
          /\ out'[1].status = IF loads'[l].st = "true" THEN 200 ELSE 500

\* C30: the callers that joined a load get its one outcome together when it
\* settles, and every load settles: no handler waits for a load for ever.
C30_JoinersSettle ==
  /\ [][\A l \in 1..Len(loads) : SettlesForAll(l)]_vars
  /\ \A r \in Requests : (req[r].pc = "awaitLoad") ~> (req[r].pc # "awaitLoad")

\* two handlers that joined the same load have both run on after it failed
C30_Witness ==
  \E r \in Requests, q \in Requests :
     /\ r # q
     /\ req[r].pc = "awaitAll" /\ req[q].pc = "awaitAll"
     /\ req[r].load # 0 /\ req[r].load = req[q].load
     /\ req[r].upstream.fetch + req[q].upstream.fetch = 1
     /\ loads[req[r].load].st = "false"

\* ------------------------------------------------------------------------
\* C31: the speaking rate sent to synthesis is the rate of the table slow=0.6,
\* normal=0.9, fast=1.2 for the request's speed, the normal rate for a speed
\* outside the table, and the voice is the entry of voiceMap for the accent
\* and the requested gender.
\* ------------------------------------------------------------------------
\* the rate of a speed, in tenths
tableRate(speed) ==
  CASE speed = "slow" -> 6 [] speed = "fast" -> 12 [] OTHER -> 9

Synthesising == {r \in Requests : req[r].pc = "awaitTts"}

C31_RateAndVoice ==
  \A r \in Synthesising :
     LET b == req[r].body
         sent == req[r].ttsRequest[1]
     IN /\ sent.speakingRate = RateNumber(tableRate(speedOf(b)))
        /\ sent.name = (IF b.isMale THEN voiceMap[b.accent].male
                                    ELSE voiceMap[b.accent].female)

\* ------------------------------------------------------------------------
\* C32: phoneticTranscriptions is null or the complete table of a successful
\* load, and the phonetic data a handler holds is what a lookup in a
\* complete table of a successful load (or in no table) gives, also when a
\* reload settles while requests are being served.
\* ------------------------------------------------------------------------
\* what a lookup of a word and accent gives in no table or in a complete one
CompleteLookups(word, accent) ==
  {NoPhoneticData}
    \cup {lookupPhonetic(processed(d), toLowerCase(word), accent) : d \in delivered}

C32_ReplacedWholesale ==
  /\ phoneticTranscriptions \in {0} \cup delivered
  /\ \A r \in Requests :
        req[r].pc = "awaitAll" =>
          req[r].phoneticData \in CompleteLookups(req[r].word, req[r].body.accent)
  /\ \A k \in DOMAIN phoneticCache : phoneticCache[k] \in CompleteLookups(k[1], k[2])

\* a reload has replaced the table of an earlier load while a handler that
\* looked its word up in the earlier table is still being served
C32_Witness ==
  /\ phoneticTranscriptions = 2
  /\ delivered = {1, 2}
  /\ \E r \in Requests :
        /\ req[r].pc = "awaitAll"
        /\ req[r].phoneticData = lookupPhonetic(processed(1), req[r].word, req[r].body.accent)

\* ------------------------------------------------------------------------
\* C33: a request whose word differs only in letter case or in leading and
\* trailing whitespace from the word of the request that stored an entry,
\* with the same accent and gender, has the key of that entry and is served
\* from it: it makes no upstream call and the ETag of the entry, the one it
\* is sent with the stored document, is the fingerprint of its own word,
\* accent and gender.
\* ------------------------------------------------------------------------
Spaces(n) == [i \in 1..n |-> " "]

\* the words left when whitespace is taken off the two ends of w
Unpadded(w) ==
  {SubSeq(w, a + 1, Len(w) - b) :
     <<a, b>> \in {p \in (0..Len(w)) \X (0..Len(w)) :
                     /\ p[1] + p[2] <= Len(w)
                     /\ SubSeq(w, 1, p[1]) = Spaces(p[1])
                     /\ SubSeq(w, Len(w) - p[2] + 1, Len(w)) = Spaces(p[2])}}

SameWord(w1, w2) ==
  \E c1 \in Unpadded(w1), c2 \in Unpadded(w2) : toLowerCase(c1) = toLowerCase(c2)

\* the bodies differ in the spelling of the word only
OtherSpelling(b1, b2) ==
  /\ b1.word.str # b2.word.str
  /\ SameWord(b1.word.str, b2.word.str)
  /\ b1.accent = b2.accent
  /\ b1.isMale = b2.isMale

C33_SpellingsShareEntry ==
  \A k \in DOMAIN stored :
     (ValidArrival /\ OtherSpelling(stored[k].by, arrival[1].body)) =>
        /\ k = ArrivalKey
        /\ stored[k].etag = responseETagOf(toLowerCase(trim(arrival[1].body.word.str)),
                                           arrival[1].body.accent, arrival[1].body.isMale)
        /\ IF arrival[1].inm = stored[k].etag
             THEN AnsweredFromCache(304, <<>>, NoHeader)
             ELSE AnsweredFromCache(200, <<stored[k].data>>, stored[k].etag)

\* the entry stored by the request for "a" answers the request for " A"
C33_Witness ==
  /\ ValidArrival
  /\ arrival[1].body.word.str = <<" ", "A">>
  /\ \E k \in DOMAIN stored :
        /\ stored[k].by.word.str = <<"a">>
        /\ OtherSpelling(stored[k].by, arrival[1].body)
        /\ AnsweredFromCache(200, <<stored[k].data>>, stored[k].etag)

\* ------------------------------------------------------------------------
\* C34: every entry of the response cache holds the audio of a successful
\* synthesis call for the word, accent and voice of its key, and an ETag
\* equal to the fingerprint of the word, accent and gender of its key.
\* ------------------------------------------------------------------------
keyIsMale(k) == k[3] = "male"

C34_EntriesHaveAudio ==
  \A k \in DOMAIN cache :
     /\ cache[k].data.audioContent =
          audioContentOf(k[1], k[2], voiceNameOf(k[2], keyIsMale(k)))
     /\ cache[k].etag = responseETagOf(k[1], k[2], keyIsMale(k))

\* a handler whose synthesis call succeeded has just stored the entry of its
\* key, in a behaviour in which synthesis calls can fail
C34_Witness ==
  /\ out # <<>>
  /\ out[1].route = "post"
  /\ out[1].status = 200
  /\ out[1].upstream.tts = 1
  /\ cacheKeyOf(out[1].word, out[1].body) \in DOMAIN cache
  /\ FALSE \in env.tts

\* ------------------------------------------------------------------------
\* C35: a request is answered 304 only when the response cache holds an
\* entry for its key and its If-None-Match header equals the ETag of that
\* entry; a request without the header, or for a key that has no entry,
\* is never answered 304.
\* ------------------------------------------------------------------------
Answered304 == out # <<>> /\ out[1].route = "post" /\ out[1].status = 304

C35_NotModifiedOnlyOnMatch ==
  Answered304 =>
     /\ arrival # <<>>
     /\ arrival[1].slot = out[1].slot
     /\ arrival[1].inm # NoHeader
     /\ ArrivalKey \in DOMAIN cache
     /\ arrival[1].inm = cache[ArrivalKey].etag

\* a request that presents the ETag of the entry of its key is answered 304
C35_Witness ==
  /\ Answered304
  /\ ArrivalKey \in DOMAIN cache
  /\ arrival[1].inm = cache[ArrivalKey].etag
  /\ out[1].upstream = NoUpstream

\* ------------------------------------------------------------------------
\* C36: a response assembled while the dataset was not loaded or the
\* definition provider had failed is stored like a complete one, and until
\* its entry expires every request for the key is answered from it without
\* any upstream call, also after the dataset has loaded or the provider has
\* recovered.
\* ------------------------------------------------------------------------
StoredDegraded == ValidArrival /\ ArrivalKey \in DOMAIN stored /\ stored[ArrivalKey].degraded

AssembledDegraded == Assembled(out) /\ degraded(out[1].rec)

C37_UnloadedLeavesNoTrace ==
  [][\A r \in Requests : LookupStep(r) =>
       /\ phoneticTranscriptions' = 0 =>
             /\ req'[r].phoneticData = NoPhoneticData
             /\ phoneticCache' = phoneticCache
             /\ phoneticCache' = EmptyMap
       /\ (phoneticTranscriptions' # 0 /\ PhoneticKey(req'[r]) \notin DOMAIN phoneticCache) =>
             req'[r].phoneticData =
               lookupPhonetic(processed(phoneticTranscriptions'), req'[r].word,
                              req'[r].body.accent)]_vars

\* a handler that looked its pair up after a failed load is still in flight
\* when a later handler finds the dataset's value for the same pair
C37_Witness ==
  \E r \in Requests, q \in Requests :
     /\ req[r].pc = "awaitAll"
     /\ req[q].pc = "awaitAll"
     /\ PhoneticKey(req[r]) = PhoneticKey(req[q])
     /\ ~req[q].loaded
     /\ req[q].load # 0
     /\ req[q].phoneticData = NoPhoneticData
     /\ req[r].loaded
     /\ req[r].phoneticData.phonetic # NULL

\* ------------------------------------------------------------------------
\* C38: a GET /reload-phonetics whose load fails is answered 500, and the
\* step that settles it leaves the loaded table as it was: every phonetic
\* lookup returns after it what it returned before it.
\* ------------------------------------------------------------------------
\* load l, started by GET /reload-phonetics, fails in this step
ReloadFails(l) ==
  /\ l \in 1..Len(loads)
  /\ loads[l].st = "pending"
  /\ loads[l].by = "reload"
  /\ loads'[l].st = "false"

\* what getPhoneticFromJSON returns for a word and an accent
lookupValue(word, accent, table, pcache) ==
  getPhoneticFromJSON(word, accent, table, pcache).result

LookupWords == {<<"a">>, <<"b">>, <<>>}

C38_FailedReloadKeepsTable ==
  [][\A l \in 1..MaxLoads : ReloadFails(l) =>
       /\ out' = <<[route |-> "reload", load |-> l, status |-> 500]>>
       /\ phoneticTranscriptions' = phoneticTranscriptions
       /\ \A w \in LookupWords, a \in Accents \cup ObjectPrototypeKeys :
             lookupValue(w, a, phoneticTranscriptions', phoneticCache')
               = lookupValue(w, a, phoneticTranscriptions, phoneticCache)]_vars

\* a reload has just failed while a table is loaded
C38_Witness ==
  /\ out # <<>>
  /\ out[1].route = "reload"
  /\ out[1].status = 500
  /\ phoneticTranscriptions # 0
  /\ lookupValue(<<"a">>, "en-US", phoneticTranscriptions, phoneticCache).phonetic # NULL
\* ------------------------------------------------------------------------
\* Requests without word data (src/unnamed/part_003)
\* ------------------------------------------------------------------------
\* the word of a handler starts with a letter a-z
StartsWithLetter(word) == word # <<>> /\ isLowerLetter(word[1])

\* the POST handler r leaves the validation and the cache lookup in this
\* step with a word that does not start with a letter
EntersWithoutLetter(r) ==
  /\ req[r].pc = "idle"
  /\ req'[r].pc \in {"awaitShard", "awaitTts"}
  /\ ~StartsWithLetter(req'[r].word)

\* fetchWordData gave the handler null without a fetch, or after a fetch
\* that failed
WithoutWordData(rec) ==
  /\ rec.pc = "awaitTts"
  /\ \/ ~StartsWithLetter(rec.word) /\ rec.upstream.shard = 0
     \/ rec.fetch = "failed"

\* a 200 response with audio and no word data
AudioOnly(o) ==
  /\ o # <<>>
  /\ o[1].route = "post"
  /\ o[1].status = 200
  /\ o[1].resBody # <<>>
  /\ o[1].resBody[1].audioContent[1] = "mp3"
  /\ o[1].resBody[1].meanings = <<>>
  /\ o[1].resBody[1].examples = <<>>
  /\ o[1].resBody[1].synonyms = <<>>
  /\ o[1].resBody[1].antonyms = <<>>

\* C39: in part_003 a request whose word does not start with a letter a-z
\* issues no shard fetch and goes on to the synthesis call; a request whose
\* shard fetch fails issues no second fetch and no error and goes on to the
\* synthesis call; in both cases, when the synthesis succeeds, the request
\* ends with 200 carrying audio and empty meanings, examples, synonyms and
\* antonyms.
C39_AbsorbedWithoutWordData ==
  [][\A r \in Requests : variant = "part_003" =>
       /\ EntersWithoutLetter(r) =>
            /\ req'[r].pc = "awaitTts"
            /\ req'[r].upstream = [shard |-> 0, tts |-> 1]
            /\ req'[r].wordData = <<>>
       /\ ShardFetchComplete(r, FALSE) =>
            /\ req'[r].pc = "awaitTts"
            /\ req'[r].upstream = [shard |-> 1, tts |-> 1]
            /\ req'[r].wordData = <<>>
            /\ out' = <<>>
       /\ (WithoutWordData(req[r]) /\ ShardTtsComplete(r, TRUE)) =>
            AudioOnly(out')]_vars

====
